---- MODULE Spec2Model ----
(***************************************************************************)
(* Model of the minesweeper board (src/src/game.rs): GameState with its    *)
(* click, flag and validate operations on a rectangular field of cells;    *)
(* of CombinationIterator (src/src/lib.rs); of the solver's two strategies *)
(* (src/src/solver.rs); and of the frame loop of main with the selection   *)
(* step of educated_guess (src/src/main.rs).                                *)
(***************************************************************************)
EXTENDS Integers, Sequences, FiniteSets

\* Largest number of cells (width * height) of a modelled board.
MaxCells == 6

\* Largest num_bombs handed to GameState::new.
MaxBombs == 2

\* Largest number of cells of a board that validate is called on.
MaxValidateCells == 4

\* Largest width and largest height of a board neighbors is called on.
MaxSide == 4

\* Largest n handed to CombinationIterator::new.
MaxN == 5

\* Largest number of calls of next made after the iterator first ended.
MaxCallsAfterEnd == 2

\* Largest number of cells of a board the frame loop plays on.
MaxFrameCells == 4

\* Largest num_bombs of a board the frame loop plays on.
MaxFrameBombs == 2

\* Largest tally of a cell in the histogram of educated_guess.
MaxTally == 2

\* Largest number of cells of a board the grouping loop is run on.
MaxGroupCells == 5

\* Largest num_bombs of a board the grouping loop is run on.
MaxGroupBombs == 1

\* Largest length of groups that is kept: a grouping loop that ends never
\* opens that many groups on a board of MaxGroupCells cells, and one that
\* does not end keeps seeding the last group kept.
MaxGroups == 3

\* Largest width of the one-row boards the tallies of educated_guess are
\* computed on.
MaxGuessCells == 7

\* Largest num_bombs of those boards.
MaxGuessBombs == 2

\* Side of the square boards the frame loop is run on with the guesses of
\* educated_guess computed (SpecSquare).
SquareSide == 3

\* num_bombs of those boards.
SquareBombs == 2

\* Largest guess_count of a game on those boards.
MaxSquareGuesses == 2

\* Largest width of the one-row boards a whole game is run on, each call
\* of educated_guess step by step (SpecGame).
MaxGameCells == 6

\* Largest num_bombs of those boards.
MaxGameBombs == 3

VARIABLES field, width, height, game_condition, bomb_count, flagged_count,
          hypothetical, valid,
          nbrs,       \* the last call of neighbors: its arguments and result
          iter,       \* a CombinationIterator: its fields state, n and r
          returned,   \* what the calls of iter.next() returned, in order
          solver,     \* main's solver: the strategies of the Solver
          events,     \* main's events: the batch of the current frame
          cursor,     \* position of the for loop in events, from 1
          event,      \* the event being applied and handed to update
          saved_valid_clicks,  \* main's deferred queue
          guess_count,         \* main's guess counter
          pc,         \* where the frame loop is
          hist,       \* what the current frame has done so far
          groups,     \* educated_guess: the Vec of groups
          ungrouped_cells,       \* educated_guess: the HashSet of that name
          check_queue,           \* educated_guess: the Vec of that name
          group_idx,             \* educated_guess: index of the open group
          first_ungrouped_cell,  \* the last seed and the set it was taken from
          collected,  \* the partition candidates, mapped and reduced in place
          histogram,  \* educated_guess: the HashMap of tallies
          hypotheses, \* the hypothesis boards handed to validate so far
          guess_pc    \* where educated_guess is

\* The fields of the board.
boardVars == <<field, width, height, game_condition, bomb_count,
               flagged_count>>

\* The variables of main's frame loop.
mainVars == <<solver, events, cursor, event, saved_valid_clicks, guess_count,
              pc, hist>>

\* The local variables of educated_guess.
guessVars == <<groups, ungrouped_cells, check_queue, group_idx,
               first_ungrouped_cell, collected, histogram, hypotheses,
               guess_pc>>

\* The variables outside the board and validate.
libVars == <<nbrs, iter, returned, mainVars, guessVars>>

vars == <<field, width, height, game_condition, bomb_count, flagged_count,
          hypothetical, valid, libVars>>

\* No frame loop is running.
NoMain ==
    /\ solver = << >>
    /\ events = << >>
    /\ cursor = 0
    /\ event = [tag |-> "Event::None"]
    /\ saved_valid_clicks = << >>
    /\ guess_count = 0
    /\ pc = "none"
    /\ hist = << >>

\* No call of educated_guess is running.
NoGuess ==
    /\ groups = << >>
    /\ ungrouped_cells = {}
    /\ check_queue = << >>
    /\ group_idx = 0
    /\ first_ungrouped_cell = [tag |-> "None"]
    /\ collected = << >>
    /\ histogram = [tag |-> "None"]
    /\ hypotheses = {}
    /\ guess_pc = "none"

----------------------------------------------------------------------------
(* Data types *)

\* enum CellState
CellState == {"Empty", "Mine"}

\* CellVisibility::Unknown
Unknown == [tag |-> "Unknown"]

\* CellVisibility::Flagged
Flagged == [tag |-> "Flagged"]

\* CellVisibility::Empty(n): revealed, n neighbors are mines
Revealed(n) == [tag |-> "Empty", n |-> n]

\* enum GameCondition
GameCondition == {"InProgress", "Won", "Lost"}

\* Option::None, as returned by at / Vec::pop
None == [tag |-> "None"]

\* A panic of the running thread: an index past the end of a vector, an
\* unwrap of None.
Panic == [tag |-> "Panic"]

\* Option::Some(v)
Some(v) == [tag |-> "Some", value |-> v]

\* struct Cell
Cell(s, v) == [state |-> s, visibility |-> v]

\* struct GameState as a value
GameState(f, w, h, gc, bc, fc) ==
    [field |-> f, width |-> w, height |-> h, game_condition |-> gc,
     bomb_count |-> bc, flagged_count |-> fc]

\* The board held in the variables.
Self == GameState(field, width, height, game_condition, bomb_count, flagged_count)

----------------------------------------------------------------------------
(* GameState methods *)

\* at with both comparisons of its bounds check strict: x = width and
\* y = height pass the check, and the read of field then either lands on
\* another cell or indexes past the end of the vector (a panic).
at_strict_check(g, x, y) ==
    IF x > g.width \/ y > g.height
    THEN None
    ELSE IF y * g.width + x \in DOMAIN g.field
         THEN g.field[y * g.width + x]
         ELSE Panic

\* at(x, y): bounds-checked read of field[y * width + x]
at(g, x, y) ==
    IF x >= g.width \/ y >= g.height
    THEN None
    ELSE g.field[y * g.width + x]

\* The offset pairs in the order the two nested loops of neighbors visit them.
Offsets ==
    << <<-1, -1>>, <<-1, 0>>, <<-1, 1>>,
       << 0, -1>>, << 0, 0>>, << 0, 1>>,
       << 1, -1>>, << 1, 0>>, << 1, 1>> >>

\* The guard of neighbors without the skip of the offset pair (0, 0): the
\* cell itself is pushed with its neighbors.
NeighborKept_with_self(g, x, y, o) ==
    /\ ~((x = 0 /\ o[1] < 0) \/ (y = 0 /\ o[2] < 0))
    /\ ~(x + o[1] >= g.width \/ y + o[2] >= g.height)

\* The guard of the loop body of neighbors for one offset pair.
NeighborKept(g, x, y, o) ==
    /\ ~(o[1] = 0 /\ o[2] = 0)
    /\ ~((x = 0 /\ o[1] < 0) \/ (y = 0 /\ o[2] < 0))
    /\ ~(x + o[1] >= g.width \/ y + o[2] >= g.height)

\* neighbors(x, y): the in-bounds Moore neighbors, in push order
neighbors(g, x, y) ==
    LET kept == SelectSeq(Offsets, LAMBDA o : NeighborKept(g, x, y, o))
    IN [k \in 1..Len(kept) |-> <<x + kept[k][1], y + kept[k][2]>>]

RECURSIVE SumSeq(_)
SumSeq(s) == IF s = <<>> THEN 0 ELSE Head(s) + SumSeq(Tail(s))

\* The closure summed in click: 1 for a neighbor whose state is Mine.
MineIndicator(g, p) ==
    LET cell == at(g, p[1], p[2])
    IN IF cell # None
       THEN (IF cell.state = "Mine" THEN 1 ELSE 0)
       ELSE 0

\* mine_count of click: number of neighbors of (x, y) whose state is Mine
mine_count(g, x, y) ==
    LET ns == neighbors(g, x, y)
    IN SumSeq([k \in 1..Len(ns) |-> MineIndicator(g, ns[k])])

\* remaining_mines(): bomb_count - flagged_count on usize; a negative value
\* here stands for the underflow of that subtraction.
remaining_mines(g) == g.bomb_count - g.flagged_count

\* flag with the commented-out loop of its body enabled: every revealed
\* neighbor with a clue of at least 1 has its clue lowered by one.
flag_decrementing(g, x, y) ==
    LET copy == at(g, x, y)
    IN IF copy = None THEN g
       ELSE LET counted == copy.state = "Mine" /\ copy.visibility # Flagged
                fc == IF counted THEN g.flagged_count + 1 ELSE g.flagged_count
                gc == IF counted /\ fc = g.bomb_count
                      THEN "Won" ELSE g.game_condition
                ns == neighbors(g, x, y)
                around == {ns[k][2] * g.width + ns[k][1] : k \in 1..Len(ns)}
                lowered == [i \in DOMAIN g.field |->
                    IF /\ i \in around
                       /\ g.field[i].visibility.tag = "Empty"
                       /\ g.field[i].visibility.n >= 1
                    THEN Cell(g.field[i].state,
                              Revealed(g.field[i].visibility.n - 1))
                    ELSE g.field[i]]
            IN [g EXCEPT !.flagged_count = fc,
                         !.game_condition = gc,
                         !.field = [lowered EXCEPT ![y * g.width + x] =
                                        Cell(copy.state, Flagged)]]

\* flag without the test that the mine is not yet Flagged.
flag_recounting(g, x, y) ==
    LET copy == at(g, x, y)
    IN IF copy = None THEN g
       ELSE LET counted == copy.state = "Mine"
                fc == IF counted THEN g.flagged_count + 1 ELSE g.flagged_count
                gc == IF counted /\ fc = g.bomb_count
                      THEN "Won" ELSE g.game_condition
            IN [g EXCEPT !.flagged_count = fc,
                         !.game_condition = gc,
                         !.field[y * g.width + x] = Cell(copy.state, Flagged)]

\* flag without the test that the cell is a mine.
flag_any_state(g, x, y) ==
    LET copy == at(g, x, y)
    IN IF copy = None THEN g
       ELSE LET counted == copy.visibility # Flagged
                fc == IF counted THEN g.flagged_count + 1 ELSE g.flagged_count
                gc == IF counted /\ fc = g.bomb_count
                      THEN "Won" ELSE g.game_condition
            IN [g EXCEPT !.flagged_count = fc,
                         !.game_condition = gc,
                         !.field[y * g.width + x] = Cell(copy.state, Flagged)]

\* flag with the comparison against bomb_count moved out of the branch
\* that counts the mine.
flag_late_check(g, x, y) ==
    LET copy == at(g, x, y)
    IN IF copy = None THEN g
       ELSE LET counted == copy.state = "Mine" /\ copy.visibility # Flagged
                fc == IF counted THEN g.flagged_count + 1 ELSE g.flagged_count
                gc == IF fc = g.bomb_count
                      THEN "Won" ELSE g.game_condition
            IN [g EXCEPT !.flagged_count = fc,
                         !.game_condition = gc,
                         !.field[y * g.width + x] = Cell(copy.state, Flagged)]

\* flag(x, y)
flag(g, x, y) ==
    LET copy == at(g, x, y)
    IN IF copy = None THEN g
       ELSE LET counted == copy.state = "Mine" /\ copy.visibility # Flagged
                fc == IF counted THEN g.flagged_count + 1 ELSE g.flagged_count
                gc == IF counted /\ fc = g.bomb_count
                      THEN "Won" ELSE g.game_condition
            IN [g EXCEPT !.flagged_count = fc,
                         !.game_condition = gc,
                         !.field[y * g.width + x] = Cell(copy.state, Flagged)]

\* click_neighbors with the commented-out assignment enabled: set when an
\* Unknown Empty cell is revealed with no mine around it.
click_neighbors_flood(copy, n) ==
    copy.state = "Empty" /\ copy.visibility = Unknown /\ n = 0

\* click_neighbors after the match of click for the cell copy with n mine
\* neighbors: the assignment that would set it on mine_count == 0 is
\* commented out, so it keeps its initial false.
click_neighbors(copy, n) == FALSE

\* The positions pushed on click_queue when click_neighbors is set.
RECURSIVE clickPushes(_, _, _)
clickPushes(x, y, k) ==
    IF k > Len(Offsets) THEN <<>>
    ELSE LET o == Offsets[k]
             rest == clickPushes(x, y, k + 1)
         IN IF (o[1] = 0 /\ o[2] = 0)
               \/ (x = 0 /\ o[1] < 0) \/ (y = 0 /\ o[2] < 0)
            THEN rest
            ELSE << <<x + o[1], y + o[2]>> >> \o rest

\* The match of click with a Mine arm that also reveals the clicked mine.
clickCell_exposing(g, x, y, copy) ==
    IF copy.state = "Mine"
    THEN [g EXCEPT !.game_condition = "Lost",
                   !.field[y * g.width + x] =
                       Cell(copy.state, Revealed(mine_count(g, x, y)))]
    ELSE IF copy.visibility = Unknown
    THEN [g EXCEPT !.field[y * g.width + x] =
                       Cell(copy.state, Revealed(mine_count(g, x, y)))]
    ELSE g

\* The match of click on the in-bounds cell copy at (x, y): the board after
\* the assignment *self.at_mut(x, y) = match copy { ... }.
clickCell(g, x, y, copy) ==
    IF copy.state = "Mine"
    THEN [g EXCEPT !.game_condition = "Lost"]
    ELSE IF copy.visibility = Unknown
    THEN [g EXCEPT !.field[y * g.width + x] =
                       Cell(copy.state, Revealed(mine_count(g, x, y)))]
    ELSE g

\* The loop of click: pop the last queued position and process it.
RECURSIVE clickLoop(_, _)
clickLoop(g, click_queue) ==
    IF click_queue = <<>> THEN g
    ELSE LET coords == click_queue[Len(click_queue)]
             popped == SubSeq(click_queue, 1, Len(click_queue) - 1)
             x == coords[1]
             y == coords[2]
             copy == at(g, x, y)
         IN IF copy = None THEN clickLoop(g, popped)
            ELSE IF click_neighbors(copy, mine_count(g, x, y))
                 THEN clickLoop(clickCell(g, x, y, copy),
                                popped \o clickPushes(x, y, 1))
                 ELSE clickLoop(clickCell(g, x, y, copy), popped)

\* click(x, y)
click(g, x, y) == clickLoop(g, << <<x, y>> >>)

\* field.len()
FieldLen(g) == Cardinality(DOMAIN g.field)

\* One step of the loop of validate, from field index i on: a revealed cell
\* of self is compared with the mine count around it in the hypothetical.
RECURSIVE validateFrom(_, _, _)
validateFrom(self, hyp, i) ==
    IF i >= FieldLen(self) \/ i >= FieldLen(hyp) THEN TRUE
    ELSE LET cell1 == self.field[i]
         IN IF cell1.visibility.tag = "Empty"
            THEN LET x == i % self.width
                     y == i \div self.width
                     n1 == cell1.visibility.n
                     n2 == mine_count(hyp, x, y)
                 IN IF n1 # n2 THEN FALSE
                    ELSE validateFrom(self, hyp, i + 1)
            ELSE validateFrom(self, hyp, i + 1)

\* validate counting the mines of the board itself instead of those of
\* the hypothetical board.
validate_own_mines(self, hyp) == validateFrom(self, self, 0)

\* validate(hypothetical)
validate(self, hyp) == validateFrom(self, hyp, 0)

----------------------------------------------------------------------------
(* State machine *)

\* The field GameState::new builds: all cells Unknown, mines exactly at M.
NewField(w, h, M) ==
    [i \in 0..(w * h - 1) |->
        Cell(IF i \in M THEN "Mine" ELSE "Empty", Unknown)]

\* GameState::new(width, height, num_bombs) with any outcome of the random
\* placement loop: num_bombs distinct cells are mines.
Init ==
    \E w \in 1..MaxCells, h \in 1..MaxCells :
        /\ w * h <= MaxCells
        /\ \E b \in 0..MaxBombs :
            /\ b <= w * h
            /\ \E M \in SUBSET (0..(w * h - 1)) :
                /\ Cardinality(M) = b
                /\ field = NewField(w, h, M)
                /\ width = w
                /\ height = h
                /\ bomb_count = b
                /\ game_condition = "InProgress"
                /\ flagged_count = 0
                /\ hypothetical = None
                /\ valid = None
                /\ nbrs = None
                /\ iter = None
                /\ returned = << >>
                /\ NoMain
                /\ NoGuess

\* Stores a GameState value in the board variables.
Store(g) ==
    /\ field' = g.field
    /\ width' = g.width
    /\ height' = g.height
    /\ game_condition' = g.game_condition
    /\ bomb_count' = g.bomb_count
    /\ flagged_count' = g.flagged_count

\* A call game_state.click(x, y)
Click(x, y) ==
    /\ valid = None
    /\ Store(click(Self, x, y))
    /\ UNCHANGED <<hypothetical, valid, libVars>>

\* A call game_state.flag(x, y)
Flag(x, y) ==
    /\ valid = None
    /\ Store(flag(Self, x, y))
    /\ UNCHANGED <<hypothetical, valid, libVars>>

\* The coordinates a caller passes: every cell of the board, and positions
\* past its right edge, past its bottom edge and past both.
Coords ==
    {<<x, y>> : x \in 0..(width - 1), y \in 0..(height - 1)}
        \cup {<<width, 0>>, <<0, height>>, <<width, height>>}

Next ==
    \/ \E p \in Coords : Click(p[1], p[2])
    \/ \E p \in Coords : Flag(p[1], p[2])

Spec == Init /\ [][Next]_vars

\* A hypothesis board: a clone of the board whose cell states are Mine
\* exactly at M, every visibility kept.
Hypothesis(g, M) ==
    [g EXCEPT !.field = [i \in DOMAIN g.field |->
        Cell(IF i \in M THEN "Mine" ELSE "Empty", g.field[i].visibility)]]

\* A call game_state.validate(&hypothetical); the result is kept in valid.
Validate(M) ==
    /\ valid = None
    /\ hypothetical' = Hypothesis(Self, M)
    /\ valid' = Some(validate(Self, hypothetical'))
    /\ UNCHANGED <<field, width, height, game_condition, bomb_count, flagged_count>>
    /\ UNCHANGED libVars

NextValidate ==
    \/ \E p \in Coords : Click(p[1], p[2])
    \/ \E p \in Coords : Flag(p[1], p[2])
    \/ \E M \in SUBSET (DOMAIN field) : Validate(M)

\* The boards validate is exercised on.
InitValidate == Init /\ width * height <= MaxValidateCells

SpecValidate == InitValidate /\ [][NextValidate]_vars

----------------------------------------------------------------------------
(* Calls of neighbors on boards of every shape up to MaxSide x MaxSide *)

\* A new board without mines of each shape, and no call made yet.
InitNeighbors ==
    \E w \in 1..MaxSide, h \in 1..MaxSide :
        /\ field = NewField(w, h, {})
        /\ width = w
        /\ height = h
        /\ bomb_count = 0
        /\ game_condition = "InProgress"
        /\ flagged_count = 0
        /\ hypothetical = None
        /\ valid = None
        /\ nbrs = None
        /\ iter = None
        /\ returned = << >>
        /\ NoMain
        /\ NoGuess

\* A call game_state.neighbors(x, y); nbrs keeps the arguments and the
\* returned vector.
CallNeighbors(x, y) ==
    /\ nbrs' = [x |-> x, y |-> y, result |-> neighbors(Self, x, y)]
    /\ UNCHANGED <<field, width, height, game_condition, bomb_count,
                   flagged_count, hypothetical, valid, iter, returned,
                   mainVars, guessVars>>

NextNeighbors ==
    \E x \in 0..(width - 1), y \in 0..(height - 1) : CallNeighbors(x, y)

SpecNeighbors == InitNeighbors /\ [][NextNeighbors]_vars

----------------------------------------------------------------------------
(* CombinationIterator (src/src/lib.rs) *)

\* struct CombinationIterator as a value; state is the Vec<usize>, held as a
\* sequence whose element k + 1 is the vector's element k.
CombinationIterator(state, n, r) == [state |-> state, n |-> n, r |-> r]

\* CombinationIterator::new(n, r): state is 0, 1, ..., r - 1.
CombinationIterator_new(n, r) ==
    CombinationIterator([k \in 1..r |-> k - 1], n, r)

\* The loop of next that walks last_idx down from r - 1: it stops at 0, or
\* one below the first position whose left neighbor is not adjacent to it.
RECURSIVE ScanBack(_, _)
ScanBack(copy, last_idx) ==
    IF last_idx = 0 THEN 0
    ELSE IF copy[last_idx] < copy[last_idx + 1] - 1
         THEN last_idx - 1
         ELSE ScanBack(copy, last_idx - 1)

\* The else branch of next: state[last_idx] += 1, and every later element
\* is set to its left neighbor plus one.
Advance(state, r) ==
    LET last_idx == ScanBack(state, r - 1)
        bumped == state[last_idx + 1] + 1
    IN [k \in 1..r |->
           IF k - 1 < last_idx THEN state[k]
           ELSE bumped + (k - 1 - last_idx)]

\* next whose walk of last_idx never stops early: last_idx always ends at
\* 0, so the first element is incremented whenever the last one is n - 1.
next_reset_all(it) ==
    IF Len(it.state) = 0
    THEN [iter |-> it, out |-> Panic]
    ELSE IF it.state[1] = 1 + it.n - it.r
    THEN [iter |-> it, out |-> None]
    ELSE IF it.state[it.r] < it.n - 1
    THEN [iter |-> [it EXCEPT !.state[it.r] = @ + 1], out |-> Some(it.state)]
    ELSE [iter |-> [it EXCEPT !.state =
                        [k \in 1..it.r |-> it.state[1] + k]],
          out |-> Some(it.state)]

\* Iterator::next of CombinationIterator: the new fields of the iterator and
\* the returned Option; out is Panic when state[0] indexes an empty vector.
\* Modelled for r <= n + 1, where no subtraction underflows.
next(it) ==
    IF Len(it.state) = 0
    THEN [iter |-> it, out |-> Panic]
    ELSE IF it.state[1] = 1 + it.n - it.r
    THEN [iter |-> it, out |-> None]
    ELSE IF it.state[it.r] < it.n - 1
    THEN [iter |-> [it EXCEPT !.state[it.r] = @ + 1], out |-> Some(it.state)]
    ELSE [iter |-> [it EXCEPT !.state = Advance(it.state, it.r)],
          out |-> Some(it.state)]

\* partition.insert(0, 0); partition.push(remaining_mines)
CutPoints(partition, mines) ==
    <<0>> \o partition \o <<mines>>

\* mine_counts without the push of remaining_mines: the last group's count
\* is never formed.
mine_counts_open(partition, mines) ==
    LET cuts == <<0>> \o partition
    IN [i \in 1..(Len(cuts) - 1) |-> cuts[i + 1] - cuts[i]]

\* mine_counts: partition.windows(2).map(|w| w[1] - w[0]) over the cut
\* points; a negative element stands for the underflow of that subtraction.
mine_counts(partition, mines) ==
    LET cuts == CutPoints(partition, mines)
    IN [i \in 1..(Len(cuts) - 1) |-> cuts[i + 1] - cuts[i]]

\* An iterator built by CombinationIterator::new(n, r) for 0 <= r <= n, and
\* no call of next yet.
InitCombinations ==
    \E n \in 0..MaxN, r \in 0..MaxN :
        /\ r <= n
        /\ iter = CombinationIterator_new(n, r)
        /\ returned = << >>
        /\ NoMain
        /\ NoGuess
        /\ nbrs = None
        /\ field = NewField(1, 1, {})
        /\ width = 1
        /\ height = 1
        /\ bomb_count = 0
        /\ game_condition = "InProgress"
        /\ flagged_count = 0
        /\ hypothetical = None
        /\ valid = None

\* Number of None values in a sequence of returned values.
Ends(rs) == Len(SelectSeq(rs, LAMBDA v : v = None))

\* A call iter.next(). A panic unwinds the caller, so no call follows it.
CallNext ==
    /\ \A k \in 1..Len(returned) : returned[k] # Panic
    /\ Ends(returned) <= MaxCallsAfterEnd
    /\ iter' = next(iter).iter
    /\ returned' = Append(returned, next(iter).out)
    /\ UNCHANGED <<field, width, height, game_condition, bomb_count,
                   flagged_count, hypothetical, valid, nbrs, mainVars,
                   guessVars>>

NextCombinations == CallNext

SpecCombinations == InitCombinations /\ [][NextCombinations]_vars

----------------------------------------------------------------------------
(* Events and the solver's strategies (src/src/solver.rs) *)

\* Event::Click { pos }
EventClick(pos) == [tag |-> "Click", pos |-> pos]

\* Event::Flag { pos }
EventFlag(pos) == [tag |-> "Flag", pos |-> pos]

\* Event::None
EventNone == [tag |-> "Event::None"]

\* A frontier entry Some((x, y, cell)) of cells_of_interest.
Entry(x, y, cell) == Some(<<x, y, cell>>)

\* A strategy object: which of the two structs it is, and its two fields.
Strategy(kind, initialized, cells_of_interest) ==
    [kind |-> kind, initialized |-> initialized,
     cells_of_interest |-> cells_of_interest]

\* Number of neighbors of (x, y) whose visibility on the board is v.
NeighborCount(g, x, y, v) ==
    LET ns == neighbors(g, x, y)
    IN Len(SelectSeq(ns, LAMBDA c : at(g, c[1], c[2]).visibility = v))

\* The first neighbor of (x, y), in the order of neighbors, that is Unknown
\* on the board; None when there is none.
FirstUnknownNeighbor(g, x, y) ==
    LET us == SelectSeq(neighbors(g, x, y),
                        LAMBDA c : at(g, c[1], c[2]).visibility = Unknown)
    IN IF us = << >> THEN None ELSE Some(us[1])

\* The closure of ExhaustedCellDetection::attempt without its comparison of
\* the clue with the flagged neighbors: every revealed frontier cell with an
\* Unknown neighbor yields a Click.
ExhaustedAttemptEntry_unchecked(g, entry) ==
    IF entry = None
    THEN [entry |-> None, out |-> None]
    ELSE LET x == entry.value[1]
             y == entry.value[2]
             center_cell == at(g, x, y)
         IN IF center_cell.visibility.tag = "Empty"
            THEN LET u == FirstUnknownNeighbor(g, x, y)
                 IN IF u # None
                    THEN [entry |-> entry, out |-> Some(EventClick(u.value))]
                    ELSE [entry |-> None, out |-> None]
            ELSE [entry |-> None, out |-> Some(EventNone)]

\* The closure of ExhaustedCellDetection::attempt on one frontier entry: the
\* entry as the closure leaves it, and the value it returns to filter_map.
ExhaustedAttemptEntry(g, entry) ==
    IF entry = None
    THEN [entry |-> None, out |-> None]
    ELSE LET x == entry.value[1]
             y == entry.value[2]
             center_cell == at(g, x, y)
         IN IF center_cell.visibility.tag = "Empty"
            THEN IF center_cell.visibility.n # NeighborCount(g, x, y, Flagged)
                 THEN [entry |-> entry, out |-> None]
                 ELSE LET u == FirstUnknownNeighbor(g, x, y)
                      IN IF u # None
                         THEN [entry |-> entry,
                               out |-> Some(EventClick(u.value))]
                         ELSE [entry |-> None, out |-> None]
            ELSE [entry |-> None, out |-> Some(EventNone)]

\* The closure of BijectionDetection::attempt comparing the clue with the
\* Unknown neighbors only, the Flagged ones left out of the count.
BijectionAttemptEntry_ignoring_flags(g, entry) ==
    IF entry = None
    THEN [entry |-> None, out |-> None]
    ELSE LET x == entry.value[1]
             y == entry.value[2]
             center_cell == at(g, x, y)
         IN IF center_cell.visibility.tag = "Empty"
            THEN LET num_neighbor_mines == center_cell.visibility.n
                     unknown_neighbor_count == NeighborCount(g, x, y, Unknown)
                     flagged_neighbor_count == NeighborCount(g, x, y, Flagged)
                     u == FirstUnknownNeighbor(g, x, y)
                 IN IF unknown_neighbor_count # num_neighbor_mines
                    THEN [entry |-> entry, out |-> None]
                    ELSE IF flagged_neighbor_count = num_neighbor_mines
                    THEN [entry |-> None, out |-> None]
                    ELSE [entry |-> entry,
                          out |-> Some(IF u # None THEN EventFlag(u.value)
                                       ELSE EventNone)]
            ELSE [entry |-> None, out |-> Some(EventNone)]

\* The closure of BijectionDetection::attempt clearing the entry as soon
\* as it has suggested one Flag for it.
BijectionAttemptEntry_one_shot(g, entry) ==
    IF entry = None
    THEN [entry |-> None, out |-> None]
    ELSE LET x == entry.value[1]
             y == entry.value[2]
             center_cell == at(g, x, y)
         IN IF center_cell.visibility.tag = "Empty"
            THEN LET num_neighbor_mines == center_cell.visibility.n
                     unknown_neighbor_count == NeighborCount(g, x, y, Unknown)
                     flagged_neighbor_count == NeighborCount(g, x, y, Flagged)
                     u == FirstUnknownNeighbor(g, x, y)
                 IN IF unknown_neighbor_count + flagged_neighbor_count
                           # num_neighbor_mines
                    THEN [entry |-> entry, out |-> None]
                    ELSE IF flagged_neighbor_count = num_neighbor_mines
                    THEN [entry |-> None, out |-> None]
                    ELSE [entry |-> None,
                          out |-> Some(IF u # None THEN EventFlag(u.value)
                                       ELSE EventNone)]
            ELSE [entry |-> None, out |-> Some(EventNone)]

\* The closure of BijectionDetection::attempt on one frontier entry.
BijectionAttemptEntry(g, entry) ==
    IF entry = None
    THEN [entry |-> None, out |-> None]
    ELSE LET x == entry.value[1]
             y == entry.value[2]
             center_cell == at(g, x, y)
         IN IF center_cell.visibility.tag = "Empty"
            THEN LET num_neighbor_mines == center_cell.visibility.n
                     unknown_neighbor_count == NeighborCount(g, x, y, Unknown)
                     flagged_neighbor_count == NeighborCount(g, x, y, Flagged)
                     u == FirstUnknownNeighbor(g, x, y)
                 IN IF unknown_neighbor_count + flagged_neighbor_count
                           # num_neighbor_mines
                    THEN [entry |-> entry, out |-> None]
                    ELSE IF flagged_neighbor_count = num_neighbor_mines
                    THEN [entry |-> None, out |-> None]
                    ELSE [entry |-> entry,
                          out |-> Some(IF u # None THEN EventFlag(u.value)
                                       ELSE EventNone)]
            ELSE [entry |-> None, out |-> Some(EventNone)]

\* The closure a strategy's attempt runs on each entry.
AttemptEntry(kind, g, entry) ==
    IF kind = "ExhaustedCellDetection"
    THEN ExhaustedAttemptEntry(g, entry)
    ELSE BijectionAttemptEntry(g, entry)

\* Strategy::attempt: the strategy afterwards and the collected events, in
\* the order of the frontier (par_iter_mut().filter_map().collect()).
attempt(s, g) ==
    LET coi == s.cells_of_interest
        rs == [k \in 1..Len(coi) |-> AttemptEntry(s.kind, g, coi[k])]
        outs == SelectSeq(rs, LAMBDA r : r.out # None)
    IN [strategy |-> [s EXCEPT !.cells_of_interest =
                          [k \in 1..Len(coi) |-> rs[k].entry]],
        events |-> [k \in 1..Len(outs) |-> outs[k].out.value]]

\* Vec::swap_remove(i) for a 0-based index i below the length: the last
\* element takes the place of element i.
swap_remove(v, i) ==
    LET n == Len(v)
    IN [k \in 1..(n - 1) |-> IF k = i + 1 THEN v[n] ELSE v[k]]

\* The closing loop of update: swap_remove of every index holding None,
\* from the highest index down. i is the number of indices still to visit;
\* the loop does nothing at an index holding Some, so the steps go from one
\* index holding None to the next one below it.
RECURSIVE RemoveNones(_, _)
RemoveNones(v, i) ==
    LET nones == {k \in 1..i : v[k] = None}
    IN IF nones = {} THEN v
       ELSE LET top == CHOOSE k \in nones : \A j \in nones : j <= k
            IN RemoveNones(swap_remove(v, top - 1), top - 1)

\* delete_idx of update for Flag { pos }: the 0-based index, among the
\* entries that are Some, of the first one at pos; None when there is none.
FlagDeleteIdx(coi, pos) ==
    LET live == SelectSeq(coi, LAMBDA e : e # None)
        hits == {i \in 1..Len(live) :
                    live[i].value[1] = pos[1] /\ live[i].value[2] = pos[2]}
    IN IF hits = {} THEN None
       ELSE Some((CHOOSE i \in hits : \A j \in hits : i <= j) - 1)

\* The match on the event in update: a swap_remove for Flag, pushes of the
\* clicked cell and of its neighbors for Click.
UpdateMatch(coi, g, ev) ==
    IF ev.tag = "Flag"
    THEN LET delete_idx == FlagDeleteIdx(coi, ev.pos)
         IN IF delete_idx # None
            THEN swap_remove(coi, delete_idx.value)
            ELSE coi
    ELSE IF ev.tag = "Click"
    THEN LET pos == ev.pos
             ns == neighbors(g, pos[1], pos[2])
         IN Append(coi, Entry(pos[1], pos[2], at(g, pos[1], pos[2])))
              \o [k \in 1..Len(ns) |->
                    Entry(ns[k][1], ns[k][2], at(g, ns[k][1], ns[k][2]))]
    ELSE coi

\* Strategy::update; the two strategies have the same body.
update(s, g, ev) ==
    IF ~s.initialized
    THEN [s EXCEPT !.initialized = TRUE]
    ELSE LET matched == UpdateMatch(s.cells_of_interest, g, ev)
         IN [s EXCEPT !.cells_of_interest =
                RemoveNones(matched, Len(matched))]

\* Solver::new(): ExhaustedCellDetection, then BijectionDetection.
Solver_new ==
    << Strategy("ExhaustedCellDetection", FALSE, << >>),
       Strategy("BijectionDetection", FALSE, << >>) >>

RECURSIVE Flatten(_)
Flatten(ss) == IF ss = << >> THEN << >> ELSE Head(ss) \o Flatten(Tail(ss))

\* Solver::next_clicks: every strategy's attempt, flattened in the order of
\* the strategies, without the Event::None values.
next_clicks(strategies, g) ==
    LET rs == [i \in 1..Len(strategies) |-> attempt(strategies[i], g)]
    IN [strategies |-> [i \in 1..Len(strategies) |-> rs[i].strategy],
        events |-> SelectSeq(Flatten([i \in 1..Len(strategies) |-> rs[i].events]),
                             LAMBDA e : e # EventNone)]

\* Solver::update forwarding to the first strategy only.
Solver_update_first_only(strategies, g, ev) ==
    [i \in 1..Len(strategies) |->
        IF i = 1 THEN update(strategies[i], g, ev) ELSE strategies[i]]

\* Solver::update: every strategy's update with the event.
Solver_update(strategies, g, ev) ==
    [i \in 1..Len(strategies) |-> update(strategies[i], g, ev)]

----------------------------------------------------------------------------
(* educated_guess: the selection of the move (src/src/main.rs) *)

\* The position an index x + y * width of the histogram stands for.
PosOf(index, w) == <<index % w, index \div w>>

\* Number of leading entries of a sequence of (index, tally) pairs whose
\* tally is 0: the entries the push loop visits before its break.
RECURSIVE LeadingZeros(_)
LeadingZeros(entries) ==
    IF entries = << >> THEN 0
    ELSE IF entries[1][2] = 0 THEN 1 + LeadingZeros(Tail(entries))
    ELSE 0

\* The selection without skip(1): the clicked cell is queued as well.
guess_select_no_skip(augmented_histogram, w, queue, count) ==
    IF augmented_histogram = << >>
    THEN Panic
    ELSE LET first == augmented_histogram[1]
             zeros == LeadingZeros(augmented_histogram)
         IN [event |-> EventClick(PosOf(first[1], w)),
             saved_valid_clicks |->
                 IF first[2] = 0
                 THEN queue \o [k \in 1..zeros |->
                        EventClick(PosOf(augmented_histogram[k][1], w))]
                 ELSE queue,
             guess_count |-> IF first[2] > 0 THEN count + 1 ELSE count]

\* The selection with the guess counter incremented on every call.
guess_select_always_counting(augmented_histogram, w, queue, count) ==
    IF augmented_histogram = << >>
    THEN Panic
    ELSE LET first == augmented_histogram[1]
             rest == Tail(augmented_histogram)
             zeros == LeadingZeros(rest)
         IN [event |-> EventClick(PosOf(first[1], w)),
             saved_valid_clicks |->
                 IF first[2] = 0
                 THEN queue \o [k \in 1..zeros |->
                                  EventClick(PosOf(rest[k][1], w))]
                 ELSE queue,
             guess_count |-> count + 1]

\* The end of educated_guess, from the sorted augmented_histogram on: the
\* returned event, the deferred queue and the guess counter afterwards.
\* Panic when augmented_histogram[0] indexes an empty vector.
guess_select(augmented_histogram, w, queue, count) ==
    IF augmented_histogram = << >>
    THEN Panic
    ELSE LET first == augmented_histogram[1]
             rest == Tail(augmented_histogram)
             zeros == LeadingZeros(rest)
         IN [event |-> EventClick(PosOf(first[1], w)),
             saved_valid_clicks |->
                 IF first[2] = 0
                 THEN queue \o [k \in 1..zeros |->
                                  EventClick(PosOf(rest[k][1], w))]
                 ELSE queue,
             guess_count |-> IF first[2] > 0 THEN count + 1 ELSE count]

\* The indices x + y * width of the Unknown cells: the keys of histogram.
UnknownCells(g) ==
    {i \in DOMAIN g.field : g.field[i].visibility = Unknown}

\* The vectors augmented_histogram can be after sort_unstable_by_key: one
\* (index, tally) entry for each Unknown cell, in any order with
\* non-decreasing tallies (the HashMap iterates in any order and the sort
\* keeps no order among ties). The tallies come from the enumeration of
\* mine placements; here they range over 0..MaxTally.
AugmentedHistograms(g) ==
    LET keys == UnknownCells(g)
        n == Cardinality(keys)
        orders == {o \in [1..n -> keys] :
                      \A j, k \in 1..n : j # k => o[j] # o[k]}
        tallies == {t \in [1..n -> 0..MaxTally] :
                      \A k \in 1..(n - 1) : t[k] <= t[k + 1]}
    IN {[k \in 1..n |-> <<o[k], t[k]>>] : o \in orders, t \in tallies}

----------------------------------------------------------------------------
(* The frame loop of main (src/src/main.rs) *)

\* The outcomes of game_state.flag / game_state.click for an event.
ApplyTo(g, e) ==
    IF e.tag = "Flag" THEN flag(g, e.pos[1], e.pos[2])
    ELSE IF e.tag = "Click" THEN click(g, e.pos[1], e.pos[2])
    ELSE g

\* let mut game_state = GameState::new(width, height, opt.num_bombs), a new
\* solver, an empty deferred queue, and the loop at the top of a frame.
InitFrame ==
    \E w \in 1..MaxFrameCells, h \in 1..MaxFrameCells :
        /\ w * h <= MaxFrameCells
        /\ \E b \in 0..MaxFrameBombs :
            /\ b <= w * h
            /\ \E M \in SUBSET (0..(w * h - 1)) :
                /\ Cardinality(M) = b
                /\ field = NewField(w, h, M)
                /\ width = w
                /\ height = h
                /\ bomb_count = b
                /\ game_condition = "InProgress"
                /\ flagged_count = 0
                /\ hypothetical = None
                /\ valid = None
                /\ nbrs = None
                /\ iter = None
                /\ returned = << >>
                /\ solver = Solver_new
                /\ events = << >>
                /\ cursor = 0
                /\ event = EventNone
                /\ saved_valid_clicks = << >>
                /\ guess_count = 0
                /\ pc = "frame"
                /\ hist = << >>
                /\ NoGuess

\* let mut events = solver.next_clicks(&game_state);
\* events.append(&mut saved_valid_clicks); then the for loop is entered, or
\* with no event the branch of educated_guess.
NextClicks ==
    /\ pc = "frame"
    /\ LET r == next_clicks(solver, Self)
           batch == r.events \o saved_valid_clicks
       IN /\ solver' = r.strategies
          /\ events' = batch
          /\ pc' = IF batch = << >> THEN "guess" ELSE "apply"
    /\ saved_valid_clicks' = << >>
    /\ cursor' = 1
    /\ hist' = << >>
    /\ UNCHANGED <<hypothetical, valid, nbrs, iter, returned, guessVars>>
    /\ UNCHANGED <<boardVars, event, guess_count>>

\* educated_guess returns: a histogram over the Unknown cells was tallied
\* and sorted, and the move is selected from it.
EducatedGuess ==
    /\ pc = "guess"
    /\ \E augmented_histogram \in AugmentedHistograms(Self) :
         LET r == guess_select(augmented_histogram, width,
                               saved_valid_clicks, guess_count)
         IN /\ r # Panic
            /\ event' = r.event
            /\ saved_valid_clicks' = r.saved_valid_clicks
            /\ guess_count' = r.guess_count
    /\ pc' = "apply"
    /\ UNCHANGED <<hypothetical, valid, nbrs, iter, returned, guessVars>>
    /\ UNCHANGED <<boardVars, solver, events, cursor, hist>>

\* educated_guess does not return: it panics (augmented_histogram[0] with
\* no Unknown cell, an index or an arithmetic fault on the way) or one of
\* its loops does not end. The frame loop stops here.
EducatedGuessStops ==
    /\ pc = "guess"
    /\ pc' = "stopped"
    /\ UNCHANGED <<hypothetical, valid, nbrs, iter, returned, guessVars>>
    /\ UNCHANGED <<boardVars, solver, events, cursor, event,
                   saved_valid_clicks, guess_count, hist>>

\* The match that applies the event to the board: the event of the batch
\* the for loop is at, or the one educated_guess returned.
ApplyEvent ==
    /\ pc = "apply"
    /\ LET e == IF events = << >> THEN event ELSE events[cursor]
           g == ApplyTo(Self, e)
       IN /\ Store(g)
          /\ event' = e
          /\ hist' = Append(hist, [op |-> "apply", event |-> e,
                                   ended |-> g.game_condition # "InProgress"])
    /\ pc' = "check"
    /\ UNCHANGED <<hypothetical, valid, nbrs, iter, returned, guessVars>>
    /\ UNCHANGED <<solver, events, cursor, saved_valid_clicks, guess_count>>

\* check_and_restart_game with the game over: a new board of the same
\* shape and mine count, a new solver, guess_count 0, the deferred queue
\* cleared, and continue 'outer, which drops the batch. (The clicks it makes
\* on a Won board land on the board it replaces.)
Restart ==
    /\ pc = "check"
    /\ game_condition # "InProgress"
    /\ \E M \in SUBSET (DOMAIN field) :
        /\ Cardinality(M) = bomb_count
        /\ field' = NewField(width, height, M)
    /\ game_condition' = "InProgress"
    /\ flagged_count' = 0
    /\ solver' = Solver_new
    /\ guess_count' = 0
    /\ saved_valid_clicks' = << >>
    /\ events' = << >>
    /\ cursor' = 0
    /\ pc' = "frame"
    /\ hist' = Append(hist, [op |-> "restart"])
    /\ UNCHANGED <<hypothetical, valid, nbrs, iter, returned, guessVars>>
    /\ UNCHANGED <<width, height, bomb_count, event>>

\* check_and_restart_game with the game in progress: it returns false.
NoRestart ==
    /\ pc = "check"
    /\ game_condition = "InProgress"
    /\ pc' = "update"
    /\ UNCHANGED <<hypothetical, valid, nbrs, iter, returned, guessVars>>
    /\ UNCHANGED <<boardVars, solver, events, cursor, event,
                   saved_valid_clicks, guess_count, hist>>

\* solver.update(&game_state, event), and the for loop moves on; after
\* the last event of the batch, and after a guess, the frame is over.
CallUpdate ==
    /\ pc = "update"
    /\ solver' = Solver_update(solver, Self, event)
    /\ hist' = Append(hist, [op |-> "update", event |-> event])
    /\ cursor' = cursor + 1
    /\ pc' = IF cursor < Len(events) THEN "apply" ELSE "frame"
    /\ UNCHANGED <<hypothetical, valid, nbrs, iter, returned, guessVars>>
    /\ UNCHANGED <<boardVars, events, event, saved_valid_clicks, guess_count>>

NextFrame ==
    \/ NextClicks
    \/ EducatedGuess
    \/ EducatedGuessStops
    \/ ApplyEvent
    \/ Restart
    \/ NoRestart
    \/ CallUpdate

SpecFrame == InitFrame /\ [][NextFrame]_vars

\* The places of the frame loop.
Places == {"frame", "guess", "apply", "check", "update", "stopped"}

\* The loop leaves the place l: some step of NextFrame is taken from it.
\* NextClicks is the step from "frame", ApplyEvent the one from "apply",
\* Restart and NoRestart the ones from "check", CallUpdate the one from
\* "update", and each is enabled whenever the loop is at its place.
Leaves(l) == pc = l /\ pc' \in Places \ {l}

\* The loop keeps running: outside educated_guess, whose return is not
\* assumed, no step of a frame waits for anything.
SpecFrameFair ==
    /\ SpecFrame
    /\ \A l \in {"frame", "apply", "check", "update"} : WF_pc(Leaves(l))

----------------------------------------------------------------------------
(* educated_guess: the grouping loop (src/src/main.rs) *)

\* The elements of a vector.
Range(s) == {s[k] : k \in DOMAIN s}

\* The orders a HashSet can be iterated in: the sequences that hold each
\* element of S once.
RECURSIVE Orders(_)
Orders(S) ==
    IF S = {} THEN {<< >>}
    ELSE UNION {{<<x>> \o o : o \in Orders(S \ {x})} : x \in S}

\* let mut unknown_cells: the positions of the Unknown cells, in field order.
unknown_cells(g) ==
    LET idx == SelectSeq([k \in 1..FieldLen(g) |-> k - 1],
                         LAMBDA i : g.field[i].visibility = Unknown)
    IN [k \in 1..Len(idx) |-> PosOf(idx[k], g.width)]

\* neighborhood made of the neighbors of the cell only, without the
\* neighbors of those neighbors.
neighborhood_direct(g, cell) == Range(neighbors(g, cell[1], cell[2]))

\* let neighborhood: the neighbors of the neighbors of cell, as a HashSet.
neighborhood(g, cell) ==
    UNION {Range(neighbors(g, e[1], e[2])) :
              e \in Range(neighbors(g, cell[1], cell[2]))}

\* The cells the for loop over neighborhood moves from ungrouped_cells to
\* the open group: those other than cell that are ungrouped and Unknown.
\* Each is tested on its own, so the set does not depend on the order.
Found(g, cell, ungrouped) ==
    {neighbor \in neighborhood(g, cell) :
        /\ neighbor # cell
        /\ neighbor \in ungrouped
        /\ at(g, neighbor[1], neighbor[2]).visibility = Unknown}

\* GameState::new for the boards the grouping loop is run on.
InitGrouping ==
    \E w \in 1..MaxGroupCells, h \in 1..MaxGroupCells :
        /\ w * h <= MaxGroupCells
        /\ \E b \in 0..MaxGroupBombs :
            /\ b <= w * h
            /\ \E M \in SUBSET (0..(w * h - 1)) :
                /\ Cardinality(M) = b
                /\ field = NewField(w, h, M)
                /\ width = w
                /\ height = h
                /\ bomb_count = b
                /\ game_condition = "InProgress"
                /\ flagged_count = 0
                /\ hypothetical = None
                /\ valid = None
                /\ nbrs = None
                /\ iter = None
                /\ returned = << >>
                /\ NoMain
                /\ NoGuess

\* A click or a flag on a cell while the game is in progress and no call
\* of educated_guess is running (educated_guess holds the &mut GameState).
Play ==
    /\ guess_pc = "none"
    /\ game_condition = "InProgress"
    /\ \E x \in 0..(width - 1), y \in 0..(height - 1) :
          Click(x, y) \/ Flag(x, y)

\* educated_guess is entered: unknown_cells is collected, groups holds one
\* empty set, every Unknown cell is ungrouped.
EnterGuess ==
    /\ guess_pc = "none"
    /\ game_condition = "InProgress"
    /\ groups' = << {} >>
    /\ ungrouped_cells' = Range(unknown_cells(Self))
    /\ check_queue' = << >>
    /\ group_idx' = 0
    /\ first_ungrouped_cell' = None
    /\ guess_pc' = "while"
    /\ UNCHANGED <<collected, histogram, hypotheses>>
    /\ UNCHANGED <<hypothetical, valid, nbrs, iter, returned, boardVars,
                   mainVars>>

\* The head of the body of while ungrouped_cells.len() > 0: the first cell
\* the HashSet iterates to seeds the open group and the check queue. It is
\* any cell of the set, and the same cell as last time when the set is the
\* one the last seed was taken from (an unmodified HashSet iterates in the
\* same order).
GroupSeed ==
    /\ guess_pc = "while"
    /\ ungrouped_cells # {}
    /\ \E cell \in ungrouped_cells :
        /\ (first_ungrouped_cell # None
              /\ first_ungrouped_cell.of = ungrouped_cells)
               => cell = first_ungrouped_cell.cell
        /\ first_ungrouped_cell' = [of |-> ungrouped_cells, cell |-> cell]
        /\ groups' = [groups EXCEPT ![group_idx + 1] = @ \cup {cell}]
        /\ check_queue' = Append(check_queue, cell)
    /\ guess_pc' = "grow"
    /\ UNCHANGED <<ungrouped_cells, group_idx, collected, histogram,
                   hypotheses>>
    /\ UNCHANGED <<hypothetical, valid, nbrs, iter, returned, boardVars,
                   mainVars>>

\* One turn of while check_queue.len() > 0: the last cell is popped and the
\* cells found around it are inserted into the open group, pushed (in the
\* order the HashSet neighborhood iterates, any order) and removed from
\* ungrouped_cells.
GroupGrow ==
    /\ guess_pc = "grow"
    /\ check_queue # << >>
    /\ LET cell == check_queue[Len(check_queue)]
           popped == SubSeq(check_queue, 1, Len(check_queue) - 1)
           found == Found(Self, cell, ungrouped_cells)
       IN /\ groups' = [groups EXCEPT ![group_idx + 1] = @ \cup found]
          /\ ungrouped_cells' = ungrouped_cells \ found
          /\ \E order \in Orders(found) : check_queue' = popped \o order
    /\ UNCHANGED <<group_idx, first_ungrouped_cell, collected, histogram,
                   hypotheses, guess_pc>>
    /\ UNCHANGED <<hypothetical, valid, nbrs, iter, returned, boardVars,
                   mainVars>>

\* The check queue is empty: with cells still ungrouped a new empty group
\* is opened, and the outer loop tests its condition again. Of a vector
\* groups that grows without end the first MaxGroups sets are kept.
GroupClose ==
    /\ guess_pc = "grow"
    /\ check_queue = << >>
    /\ IF ungrouped_cells # {} /\ Len(groups) < MaxGroups
       THEN /\ group_idx' = group_idx + 1
            /\ groups' = Append(groups, {})
       ELSE UNCHANGED <<group_idx, groups>>
    /\ guess_pc' = "while"
    /\ UNCHANGED <<ungrouped_cells, check_queue, first_ungrouped_cell,
                   collected, histogram, hypotheses>>
    /\ UNCHANGED <<hypothetical, valid, nbrs, iter, returned, boardVars,
                   mainVars>>

\* The outer loop ends: no cell is ungrouped.
GroupingEnds ==
    /\ guess_pc = "while"
    /\ ungrouped_cells = {}
    /\ guess_pc' = "grouped"
    /\ UNCHANGED <<groups, ungrouped_cells, check_queue, group_idx,
                   first_ungrouped_cell, collected, histogram, hypotheses>>
    /\ UNCHANGED <<hypothetical, valid, nbrs, iter, returned, boardVars,
                   mainVars>>

\* A step of the grouping loop.
GroupingStep ==
    \/ GroupSeed
    \/ GroupGrow
    \/ GroupClose
    \/ GroupingEnds

NextGrouping ==
    \/ Play
    \/ EnterGuess
    \/ GroupingStep

SpecGrouping == InitGrouping /\ [][NextGrouping]_vars

\* The loop runs on: it waits for nothing, so a step that can be taken is
\* taken.
SpecGroupingFair == SpecGrouping /\ WF_vars(GroupingStep)

----------------------------------------------------------------------------
(* educated_guess: the tallies (src/src/main.rs) *)

\* The number of r-element subsets of an n-element set.
RECURSIVE Binomial(_, _)
Binomial(n, r) ==
    IF r = 0 \/ r = n THEN 1
    ELSE IF r > n THEN 0
    ELSE Binomial(n - 1, r - 1) + Binomial(n - 1, r)

\* The test search_scale < 3.0, where search_scale is
\* (ramanujan_approximation(n) - ramanujan_approximation(r)
\*  - ramanujan_approximation(n - r)) / ln 10 in f32.
\* ramanujan_approximation(0.0) is NaN (0 * ln 0) and so is the value at a
\* negative argument (ln of a negative number), and a comparison with NaN
\* is false: the test fails unless n, r and n - r are all positive. For
\* positive arguments the value approximates log10 of C(n, r), within 0.001
\* for n up to 12, so the test is C(n, r) < 1000 there.
SearchScaleBelow3(n, r) ==
    /\ n > 0
    /\ r > 0
    /\ n - r > 0
    /\ Binomial(n, r) < 1000

\* The key of a cell in the histograms: x + y * width.
KeyOf(cell, w) == cell[1] + cell[2] * w

\* A HashMap<usize, usize> is held as a function on the keys it has.
\* *map.entry(key).or_insert(0) += v
AddTo(map, key, v) ==
    [k \in DOMAIN map \cup {key} |->
        IF k = key
        THEN (IF key \in DOMAIN map THEN map[key] ELSE 0) + v
        ELSE map[k]]

\* AddTo for each key of a sequence of keys, in order.
RECURSIVE AddEach(_, _, _)
AddEach(map, keys, v) ==
    IF keys = << >> THEN map
    ELSE AddEach(AddTo(map, Head(keys), v), Tail(keys), v)

\* b.iter().for_each(|e| *a.entry(*e.0).or_insert(0) += e.1): the closure
\* of reduce, and the fold of collected_hashmaps into histogram. Each key
\* of b is added once, so the order of b's iteration does not matter.
MergeInto(a, b) ==
    [k \in DOMAIN a \cup DOMAIN b |->
        (IF k \in DOMAIN a THEN a[k] ELSE 0)
            + (IF k \in DOMAIN b THEN b[k] ELSE 0)]

\* HashMap::new()
EmptyMap == [k \in {} |-> 0]

\* hypothetical.at_mut(x, y).unwrap().state = st
SetState(hyp, cell, st) ==
    [hyp EXCEPT !.field[cell[2] * hyp.width + cell[1]].state = st]

\* The for loop over unknown_cells that writes one combination into the
\* hypothetical board, from the vector index i on: the cell at index
\* last_seen becomes a Mine and idx moves on, every other cell becomes
\* Empty.
RECURSIVE PlaceFrom(_, _, _, _, _, _)
PlaceFrom(hyp, cells, combination, i, idx, last_seen) ==
    IF i >= Len(cells) THEN hyp
    ELSE IF i = last_seen
    THEN PlaceFrom(SetState(hyp, cells[i + 1], "Mine"), cells, combination,
                   i + 1, idx + 1,
                   IF idx + 1 < Len(combination)
                   THEN combination[idx + 2] ELSE last_seen)
    ELSE PlaceFrom(SetState(hyp, cells[i + 1], "Empty"), cells, combination,
                   i + 1, idx, last_seen)

\* The body of for combination in CombinationIterator::new(..) up to the
\* call of validate: let mut idx = 0; let mut last_seen = combination[idx];
\* and the loop over the cells of the group.
PlaceMines(hyp, cells, combination) ==
    PlaceFrom(hyp, cells, combination, 0, 0, combination[1])

\* The elements of a vector, as a sequence written out element by element.
Elements(v) == [k \in 1..Len(v) |-> v[k]]

\* The keys of the cells of a vector of cells at the indices of a vector
\* of indices (all of them with indices 0 .. len - 1).
KeysAt(cells, indices, w) ==
    [j \in 1..Len(indices) |-> KeyOf(cells[indices[j] + 1], w)]

\* for combination in CombinationIterator::new(unknown_cells.len(),
\* remaining_mines), from the iterator it on: the combination is written
\* into hypothetical, and when validate accepts the board the tally of each
\* of its cells goes up by one. acc holds local_histogram, the hypothesis
\* boards built so far (with the index of their group) and hypothetical.
RECURSIVE EnumerateFrom(_, _, _, _, _)
EnumerateFrom(g, cells, it, group_index, acc) ==
    LET step == next(it)
    IN IF step.out.tag # "Some" THEN acc
       ELSE LET combination == Elements(step.out.value)
                placed == PlaceMines(acc.hypothetical, cells, combination)
            IN EnumerateFrom(g, cells, step.iter, group_index,
                   [local |->
                        IF validate(g, placed)
                        THEN AddEach(acc.local,
                                     KeysAt(cells, combination, g.width), 1)
                        ELSE acc.local,
                    hypotheses |->
                        acc.hypotheses
                           \cup {[group_idx |-> group_index, board |-> placed]},
                    hypothetical |-> placed])

\* The body of the loop over groups with let mut hypothetical taken before
\* the loop: the board of the group before, with the mines written there,
\* is the one this group's combinations are written into.
GroupTally_shared_clone(g, cells, mines, group_index, acc) ==
    IF SearchScaleBelow3(Len(cells), mines)
    THEN EnumerateFrom(g, cells, CombinationIterator_new(Len(cells), mines),
                       group_index,
                       [acc EXCEPT !.hypothetical =
                           IF @ = None THEN g ELSE @])
    ELSE [acc EXCEPT !.local =
             AddEach(@, KeysAt(cells, [j \in 1..Len(cells) |-> j - 1],
                               g.width), 1)]

\* The body of for (group_idx, group) in groups.iter().enumerate(): cells
\* is the vector unknown_cells of the group and mines its mine count. A
\* group whose search is admitted gets a clone of the board and the loop
\* over its combinations; in any other group every cell's tally goes up by
\* one.
GroupTally(g, cells, mines, group_index, acc) ==
    IF SearchScaleBelow3(Len(cells), mines)
    THEN EnumerateFrom(g, cells, CombinationIterator_new(Len(cells), mines),
                       group_index, [acc EXCEPT !.hypothetical = g])
    ELSE [acc EXCEPT !.local =
             AddEach(@, KeysAt(cells, [j \in 1..Len(cells) |-> j - 1],
                               g.width), 1)]

\* The loop over groups, from the group of index group_index on.
RECURSIVE GroupsFrom(_, _, _, _, _)
GroupsFrom(g, cells_of, counts, group_index, acc) ==
    IF group_index >= Len(cells_of) THEN acc
    ELSE GroupsFrom(g, cells_of, counts, group_index + 1,
                    GroupTally(g, cells_of[group_index + 1],
                               counts[group_index + 1], group_index, acc))

\* The closure mapped over collected for one partition: the mine counts of
\* the groups, the empty map when a group gets more mines than it has
\* cells, else the tallies of the loop over groups. cells_of[i] is the
\* vector the cells of group i are collected into.
local_histogram(g, cells_of, partition) ==
    LET counts == mine_counts(partition, remaining_mines(g))
        start == [local |-> [k \in {} |-> 0], hypotheses |-> {},
                  hypothetical |-> None]
    IN IF \E i \in 1..Len(cells_of) : counts[i] > Len(cells_of[i])
       THEN start
       ELSE GroupsFrom(g, cells_of, counts, 0, start)

\* iter.collect::<Vec<_>>(): the values next yields until it returns None.
RECURSIVE Collect(_)
Collect(it) ==
    LET step == next(it)
    IN IF step.out.tag # "Some" THEN << >>
       ELSE <<Elements(step.out.value)>> \o Collect(step.iter)

\* The vectors group.iter().cloned().collect() can be, one for each group:
\* the cells of the group in any order.
CellVectors(gs) ==
    {cells_of \in [1..Len(gs) -> UNION {Orders(gs[k]) : k \in 1..Len(gs)}] :
        \A k \in 1..Len(gs) : cells_of[k] \in Orders(gs[k])}

\* The keys of a map with the least tally.
LeastKeys(map, keys) ==
    {k \in keys : \A j \in keys : map[k] <= map[j]}

\* The entries (key, tally) of the keys in the order of tally, then key.
RECURSIVE InTallyOrder(_, _)
InTallyOrder(map, keys) ==
    IF keys = {} THEN << >>
    ELSE LET k == CHOOSE c \in LeastKeys(map, keys) :
                      \A j \in LeastKeys(map, keys) : c <= j
         IN << <<k, map[k]>> >> \o InTallyOrder(map, keys \ {k})

\* The vectors augmented_histogram can be after sort_unstable_by_key, as
\* far as the selection reads them: the entries of the map by
\* non-decreasing tally, the zero tallies in any order, and with no zero
\* tally any entry of the least tally first. The selection reads the first
\* entry and the zero tallies behind it, never the order of the rest, of
\* which one order is kept.
augmented_histograms(map) ==
    LET keys == DOMAIN map
        zeros == {k \in keys : map[k] = 0}
    IN IF zeros # {}
       THEN {[j \in 1..Len(o) |-> <<o[j], 0>>]
                \o InTallyOrder(map, keys \ zeros) : o \in Orders(zeros)}
       ELSE {<< <<k, map[k]>> >> \o InTallyOrder(map, keys \ {k}) :
                k \in LeastKeys(map, keys)}

\* while check_queue.len() > 0, run until the queue is empty: the open
\* group and ungrouped_cells afterwards. The cells found around a popped
\* cell are pushed in one of the orders; the sets that result are the same
\* for each.
RECURSIVE GrowAll(_, _, _, _)
GrowAll(g, group, ungrouped, queue) ==
    IF queue = << >> THEN [group |-> group, ungrouped |-> ungrouped]
    ELSE LET cell == queue[Len(queue)]
             popped == SubSeq(queue, 1, Len(queue) - 1)
             found == Found(g, cell, ungrouped)
             order == CHOOSE o \in Orders(found) : TRUE
         IN GrowAll(g, group \cup found, ungrouped \ found, popped \o order)

\* The vectors groups the outer loop can end with, from a state with the
\* cells ungrouped left and a new empty group open: each seed the HashSet
\* can yield gives the next group. A seed that is still ungrouped when its
\* check queue is empty is seeded again without end, so no vector comes
\* from it.
RECURSIVE GroupingsFrom(_, _)
GroupingsFrom(g, ungrouped) ==
    IF ungrouped = {} THEN {<< >>}
    ELSE UNION {LET grown == GrowAll(g, {cell}, ungrouped, <<cell>>)
                IN IF cell \in grown.ungrouped THEN {}
                   ELSE {<<grown.group>> \o rest :
                            rest \in GroupingsFrom(g, grown.ungrouped)} :
                cell \in ungrouped}

\* The values of groups when the grouping loop has ended on the board g:
\* the one empty group when no cell is Unknown.
GroupingsOf(g) ==
    IF unknown_cells(g) = << >> THEN {<< {} >>}
    ELSE GroupingsFrom(g, Range(unknown_cells(g)))

\* The field of a board that clicks and flags have made of a new board with
\* the mines at M while the game stayed in progress: the cells of F are
\* Flagged, those of R (none of them a mine) are revealed with their mine
\* count, the others are Unknown.
PlayedField(w, h, M, F, R) ==
    LET new == GameState(NewField(w, h, M), w, h, "InProgress",
                         Cardinality(M), 0)
    IN [i \in 0..(w * h - 1) |->
           Cell(IF i \in M THEN "Mine" ELSE "Empty",
                IF i \in F THEN Flagged
                ELSE IF i \in R THEN Revealed(mine_count(new, i % w, i \div w))
                ELSE Unknown)]

\* educated_guess at the end of its grouping loop, on each one-row board
\* of up to MaxGuessCells cells and MaxGuessBombs mines that clicks and
\* flags reach with the game in progress (a click reveals a cell that is not
\* a mine, a flag marks any cell, and the flagged mines are fewer than the
\* mines unless there is no mine), with each value of groups the loop can
\* end with.
InitGuess ==
    \E w \in 1..MaxGuessCells, b \in 0..MaxGuessBombs :
        /\ b <= w
        /\ \E M \in SUBSET (0..(w - 1)) :
            /\ Cardinality(M) = b
            /\ \E F \in SUBSET (0..(w - 1)) :
                /\ b > 0 => Cardinality(F \cap M) < b
                /\ \E R \in SUBSET ((0..(w - 1)) \ (M \cup F)) :
                    /\ field = PlayedField(w, 1, M, F, R)
                    /\ width = w
                    /\ height = 1
                    /\ bomb_count = b
                    /\ game_condition = "InProgress"
                    /\ flagged_count = Cardinality(F \cap M)
        /\ hypothetical = None
        /\ valid = None
        /\ nbrs = None
        /\ iter = None
        /\ returned = << >>
        /\ NoMain
        /\ groups \in GroupingsOf(Self)
        /\ ungrouped_cells = {}
        /\ check_queue = << >>
        /\ group_idx = Len(groups) - 1
        /\ first_ungrouped_cell = None
        /\ collected = << >>
        /\ histogram = None
        /\ hypotheses = {}
        /\ guess_pc = "grouped"

\* The branch on search_scale always taken as not admitted: no partition is
\* collected and the tally of every cell goes up by one.
StartTally_skipping_search ==
    /\ guess_pc = "grouped"
    /\ histogram' = [k \in UnknownCells(Self) |-> 1]
    /\ collected' = << >>
    /\ guess_pc' = "select"
    /\ UNCHANGED <<groups, ungrouped_cells, check_queue, group_idx,
                   first_ungrouped_cell, hypotheses>>
    /\ UNCHANGED <<hypothetical, valid, nbrs, iter, returned, boardVars,
                   mainVars>>

\* The admitted search with collected left empty: reduce returns the
\* identity and the tallies stay 0.
StartTally_collecting_nothing ==
    /\ guess_pc = "grouped"
    /\ LET zero == [k \in UnknownCells(Self) |-> 0]
           mines == remaining_mines(Self)
       IN IF SearchScaleBelow3(mines, Len(groups) - 1)
          THEN /\ histogram' = zero
               /\ collected' = << >>
               /\ guess_pc' = "reduce"
          ELSE /\ histogram' = [k \in DOMAIN zero |-> zero[k] + 1]
               /\ collected' = << >>
               /\ guess_pc' = "select"
    /\ UNCHANGED <<groups, ungrouped_cells, check_queue, group_idx,
                   first_ungrouped_cell, hypotheses>>
    /\ UNCHANGED <<hypothetical, valid, nbrs, iter, returned, boardVars,
                   mainVars>>

\* From the end of the grouping loop to the branch on search_scale: the
\* histogram gets the tally 0 for each Unknown cell; with the search over
\* the partitions admitted the cut points CombinationIterator::new(
\* remaining_mines, groups.len() - 1) yields are collected, else the tally
\* of every cell goes up by one.
StartTally ==
    /\ guess_pc = "grouped"
    /\ LET zero == [k \in UnknownCells(Self) |-> 0]
           mines == remaining_mines(Self)
       IN IF SearchScaleBelow3(mines, Len(groups) - 1)
          THEN /\ histogram' = zero
               /\ collected' =
                    LET ps == Collect(CombinationIterator_new(
                                         mines, Len(groups) - 1))
                    IN [j \in 1..Len(ps) |->
                           [tag |-> "partition", value |-> ps[j]]]
               /\ guess_pc' = "reduce"
          ELSE /\ histogram' = [k \in DOMAIN zero |-> zero[k] + 1]
               /\ collected' = << >>
               /\ guess_pc' = "select"
    /\ UNCHANGED <<groups, ungrouped_cells, check_queue, group_idx,
                   first_ungrouped_cell, hypotheses>>
    /\ UNCHANGED <<hypothetical, valid, nbrs, iter, returned, boardVars,
                   mainVars>>

\* A worker maps the closure over the partition at place j of collected:
\* the place then holds what folding the local histogram into the identity
\* HashMap::new() gives.
MapPartition(j) ==
    /\ guess_pc = "reduce"
    /\ collected[j].tag = "partition"
    /\ \E cells_of \in CellVectors(groups) :
         LET r == local_histogram(Self, cells_of, collected[j].value)
         IN /\ collected' =
                 [collected EXCEPT
                    ![j] = [tag |-> "map",
                            value |-> MergeInto(EmptyMap, r.local)]]
            /\ hypotheses' = hypotheses \cup r.hypotheses
    /\ UNCHANGED <<groups, ungrouped_cells, check_queue, group_idx,
                   first_ungrouped_cell, histogram, guess_pc>>
    /\ UNCHANGED <<hypothetical, valid, nbrs, iter, returned, boardVars,
                   mainVars>>

\* A reduce step: two results next to each other are merged by the closure
\* of reduce.
ReducePair(j) ==
    /\ guess_pc = "reduce"
    /\ j + 1 <= Len(collected)
    /\ collected[j].tag = "map"
    /\ collected[j + 1].tag = "map"
    /\ collected' =
          [k \in 1..(Len(collected) - 1) |->
              IF k < j THEN collected[k]
              ELSE IF k = j
              THEN [tag |-> "map",
                    value |-> MergeInto(collected[j].value,
                                        collected[j + 1].value)]
              ELSE collected[k + 1]]
    /\ UNCHANGED <<groups, ungrouped_cells, check_queue, group_idx,
                   first_ungrouped_cell, histogram, hypotheses, guess_pc>>
    /\ UNCHANGED <<hypothetical, valid, nbrs, iter, returned, boardVars,
                   mainVars>>

\* reduce has returned collected_hashmaps (the identity for no partition),
\* which is folded into histogram.
FoldHistogram ==
    /\ guess_pc = "reduce"
    /\ \/ collected = << >>
       \/ Len(collected) = 1 /\ collected[1].tag = "map"
    /\ histogram' =
          MergeInto(histogram,
                    IF collected = << >> THEN EmptyMap
                    ELSE collected[1].value)
    /\ guess_pc' = "select"
    /\ UNCHANGED <<groups, ungrouped_cells, check_queue, group_idx,
                   first_ungrouped_cell, collected, hypotheses>>
    /\ UNCHANGED <<hypothetical, valid, nbrs, iter, returned, boardVars,
                   mainVars>>

\* The histogram is sorted and the move selected: educated_guess returns
\* the event, or panics at augmented_histogram[0] with no Unknown cell.
SelectGuess ==
    /\ guess_pc = "select"
    /\ IF DOMAIN histogram = {}
       THEN /\ guess_pc' = "panicked"
            /\ UNCHANGED <<event, saved_valid_clicks, guess_count>>
       ELSE /\ \E augmented_histogram \in augmented_histograms(histogram) :
                 LET r == guess_select(augmented_histogram, width,
                                       saved_valid_clicks, guess_count)
                 IN /\ event' = r.event
                    /\ saved_valid_clicks' = r.saved_valid_clicks
                    /\ guess_count' = r.guess_count
            /\ guess_pc' = "returned"
    /\ UNCHANGED <<groups, ungrouped_cells, check_queue, group_idx,
                   first_ungrouped_cell, collected, histogram, hypotheses>>
    /\ UNCHANGED <<hypothetical, valid, nbrs, iter, returned, boardVars,
                   solver, events, cursor, pc, hist>>

NextGuess ==
    \/ StartTally
    \/ \E j \in 1..Len(collected) : MapPartition(j)
    \/ \E j \in 1..Len(collected) : ReducePair(j)
    \/ FoldHistogram
    \/ SelectGuess

SpecGuess == InitGuess /\ [][NextGuess]_vars

----------------------------------------------------------------------------
(* Vocabulary of the properties, stated on field indices *)

Cells == DOMAIN field

CellX(i) == i % width

CellY(i) == i \div width

Abs(n) == IF n < 0 THEN -n ELSE n

\* i and j are distinct cells at Chebyshev distance 1.
Adjacent(i, j) ==
    /\ i # j
    /\ Abs(CellX(i) - CellX(j)) <= 1
    /\ Abs(CellY(i) - CellY(j)) <= 1

\* Number of cells around i whose state in the field f is Mine.
MinesAround(f, i) ==
    Cardinality({j \in Cells : Adjacent(i, j) /\ f[j].state = "Mine"})

IsRevealed(c) == c.visibility.tag = "Empty"

InBounds(x, y) == x < width /\ y < height

FlaggedMines == {i \in Cells : field[i].state = "Mine" /\ field[i].visibility = Flagged}

BoardUnchanged ==
    UNCHANGED <<field, width, height, game_condition, bomb_count, flagged_count>>

----------------------------------------------------------------------------
(* Properties *)

\* C1: in every board reachable from GameState::new by click and flag calls,
\* every cell revealed as Empty(n) has state Empty and n is the number of
\* its in-bounds Moore neighbors whose state is Mine; the board validates
\* against itself.
C1_RevealedCluesTrue ==
    /\ \A i \in Cells :
          IsRevealed(field[i]) =>
              /\ field[i].state = "Empty"
              /\ field[i].visibility.n = MinesAround(field, i)
    /\ validate(Self, Self)

\* A revealed clue of 2 next to a flagged cell and a second revealed clue.
C1_Witness ==
    \E i, j, k \in Cells :
        /\ i # k
        /\ IsRevealed(field[i]) /\ field[i].visibility.n = 2
        /\ Adjacent(i, j) /\ field[j].visibility = Flagged
        /\ IsRevealed(field[k]) /\ field[k].visibility.n < 2

\* C2: click(x, y) on an in-bounds cell with state Empty and visibility
\* Unknown reveals that cell with the count of its Mine neighbors and
\* changes nothing else: no other cell, not the game condition, not
\* flagged_count. Stated of the board click returns, in every reachable
\* state and for every such cell.
C2_ClickRevealsOneCell ==
    \A i \in Cells :
        field[i] = Cell("Empty", Unknown) =>
            click(Self, CellX(i), CellY(i)) =
                [Self EXCEPT !.field[i] =
                    Cell("Empty", Revealed(MinesAround(field, i)))]

\* A cell revealed with clue 0 beside a cell that is still Unknown and Empty:
\* the click revealed it and did not spread.
C2_Witness ==
    \E i, j \in Cells :
        /\ field[i] = Cell("Empty", Revealed(0))
        /\ Adjacent(i, j)
        /\ field[j] = Cell("Empty", Unknown)

\* C3: click(x, y) on an in-bounds Unknown cell whose state is Mine sets the
\* game condition to Lost and leaves every cell and flagged_count unchanged.
C3_ClickMineLoses ==
    [][\A i \in Cells :
          (/\ field[i] = Cell("Mine", Unknown)
           /\ Click(CellX(i), CellY(i)))
          => /\ game_condition' = "Lost"
             /\ UNCHANGED <<field, width, height, bomb_count, flagged_count>>]_vars

\* The game is Lost on a board that never had a flag: the mine that was
\* clicked was Unknown, and it is Unknown still.
C3_Witness ==
    /\ game_condition = "Lost"
    /\ flagged_count = 0
    /\ \A i \in Cells : field[i].visibility # Flagged
    /\ \E i \in Cells : IsRevealed(field[i])

\* C4: click on an in-bounds cell whose visibility is Empty(n) or Flagged,
\* whatever its state, changes nothing.
C4_ClickResolvedNoOp ==
    [][\A i \in Cells :
          (/\ field[i].visibility # Unknown
           /\ Click(CellX(i), CellY(i)))
          => BoardUnchanged]_vars

\* C5: once the game condition is Won or Lost, no click or flag call
\* changes it.
C5_ConditionTerminal ==
    [][(game_condition \in {"Won", "Lost"})
          => (game_condition' = game_condition)]_vars

\* flagged_count after a flag call at p: one more when p is a mine that is
\* not Flagged, the same otherwise.
C6_CountAfterFlag(p) ==
    flagged_count' =
        IF /\ InBounds(p[1], p[2])
           /\ field[p[2] * width + p[1]].state = "Mine"
           /\ field[p[2] * width + p[1]].visibility # Flagged
        THEN flagged_count + 1
        ELSE flagged_count

\* C6: flagged_count is the number of cells with state Mine and visibility
\* Flagged; a flag call adds exactly 1 when its target is a mine that is not
\* yet Flagged and leaves the counter alone otherwise, and no call lowers it
\* (every step shows that count or is no flag call at p).
C6_FlaggedCountExact ==
    /\ [](flagged_count = Cardinality(FlaggedMines))
    /\ [][flagged_count' >= flagged_count]_vars
    /\ [][\A p \in Coords :
             C6_CountAfterFlag(p) \/ ~Flag(p[1], p[2])]_vars

\* One mine flagged and counted once, one still to find, and a flag on a
\* cell that is no mine.
C6_Witness ==
    /\ bomb_count = 2
    /\ flagged_count = 1
    /\ \E i \in Cells : field[i] = Cell("Empty", Flagged)

\* The game condition after a flag call at p: Won with no mine remaining
\* when p is the last mine not yet Flagged, the same otherwise.
C7_ConditionAfterFlag(p) ==
    IF /\ InBounds(p[1], p[2])
       /\ field[p[2] * width + p[1]].state = "Mine"
       /\ field[p[2] * width + p[1]].visibility # Flagged
       /\ flagged_count + 1 = bomb_count
    THEN /\ game_condition' = "Won"
         /\ remaining_mines(GameState(field', width', height',
                game_condition', bomb_count', flagged_count')) = 0
    ELSE game_condition' = game_condition

\* C7: a flag call sets the game condition to Won exactly when it flags a
\* not-yet-flagged mine and flagged_count thereby reaches bomb_count, and
\* remaining_mines() is then 0; every other flag call leaves the game
\* condition unchanged (every step shows that outcome or is no flag call
\* at p).
C7_FlagWinsExactly ==
    [][\A p \in Coords :
          C7_ConditionAfterFlag(p) \/ ~Flag(p[1], p[2])]_vars

\* Every cell that is no mine has been clicked and every mine flagged: Won.
C7_Witness ==
    /\ game_condition = "Won"
    /\ bomb_count = MaxBombs
    /\ remaining_mines(Self) = 0
    /\ \A i \in Cells :
          \/ field[i].state = "Mine" /\ field[i].visibility = Flagged
          \/ field[i].state = "Empty" /\ IsRevealed(field[i])

\* C8: on a board created with exactly bomb_count mines, flagged_count never
\* exceeds bomb_count, so the subtraction of remaining_mines() does not
\* underflow and its result is never negative.
C8_RemainingMinesNonNegative ==
    /\ flagged_count <= bomb_count
    /\ remaining_mines(Self) >= 0

\* Every mine is flagged, and flags were put on other cells as well.
C8_Witness ==
    /\ bomb_count >= 1
    /\ flagged_count = bomb_count
    /\ Cardinality({i \in Cells : field[i].visibility = Flagged}) > bomb_count

\* C9: a cell whose visibility is Empty(n) keeps that visibility, with the
\* same n, through every later click and flag call.
C9_RevealedStaysRevealed ==
    [][\A i \in Cells :
          IsRevealed(field[i]) => field'[i].visibility = field[i].visibility]_vars

\* The clues of the board that the hypothetical board satisfies.
ClueSatisfied(i) ==
    IsRevealed(field[i]) =>
        MinesAround(hypothetical.field, i) = field[i].visibility.n

\* The hypothetical board with the state of cell j flipped.
Flipped(j) ==
    [hypothetical EXCEPT !.field[j].state =
        IF hypothetical.field[j].state = "Mine" THEN "Empty" ELSE "Mine"]

\* C10: validate(hypothetical) is true exactly when every cell of the board
\* revealed as Empty(n) has n Mine cells around it in the hypothetical board;
\* Unknown and Flagged cells impose nothing, and flipping one neighbor of a
\* satisfied clue in the hypothesis turns the result false.
C10_ValidateIffCluesHold ==
    valid # None =>
        /\ valid.value = (\A i \in Cells : ClueSatisfied(i))
        /\ valid.value =>
              \A i, j \in Cells :
                  (IsRevealed(field[i]) /\ Adjacent(i, j))
                      => ~validate(Self, Flipped(j))

\* validate accepted a hypothesis that differs from the board in an Unknown
\* cell and holds 2 mines around a revealed clue of 2.
C10_Witness ==
    /\ valid = Some(TRUE)
    /\ \E i \in Cells : IsRevealed(field[i]) /\ field[i].visibility.n = 2
    /\ \E j \in Cells :
          /\ field[j].visibility = Unknown
          /\ hypothetical.field[j].state # field[j].state

----------------------------------------------------------------------------
(* C11 *)

\* The in-bounds positions at Chebyshev distance 1 of (x, y).
MooreNeighbors(x, y) ==
    {p \in (0..(width - 1)) \X (0..(height - 1)) :
        /\ Abs(p[1] - x) <= 1
        /\ Abs(p[2] - y) <= 1
        /\ p # <<x, y>>}

\* Number of the borders of the board the position (x, y) lies on an axis:
\* 0 for an interior coordinate, 1 for a border coordinate.
OnBorder(v, size) == IF v = 0 \/ v = size - 1 THEN 1 ELSE 0

\* C11: for every in-bounds (x, y), neighbors(x, y) holds exactly the
\* in-bounds positions at Chebyshev distance 1 of (x, y), each once, never
\* (x, y) itself and never a coordinate outside 0..width-1, 0..height-1;
\* on a board at least 3 wide and 3 high that is 3 positions for a corner,
\* 5 for a non-corner edge cell and 8 for an interior cell.
C11_NeighborsExact ==
    nbrs # None =>
        LET r == nbrs.result
            onX == OnBorder(nbrs.x, width)
            onY == OnBorder(nbrs.y, height)
        IN /\ {r[k] : k \in 1..Len(r)} = MooreNeighbors(nbrs.x, nbrs.y)
           /\ \A j, k \in 1..Len(r) : j # k => r[j] # r[k]
           /\ \A k \in 1..Len(r) : r[k] # <<nbrs.x, nbrs.y>>
           /\ (width >= 3 /\ height >= 3) =>
                  Len(r) = (IF onX + onY = 2 THEN 3
                            ELSE IF onX + onY = 1 THEN 5 ELSE 8)

\* neighbors was called on an interior cell of a board at least 3 x 3 that
\* is not square, and returned 8 positions.
C11_Witness ==
    /\ nbrs # None
    /\ width = 3 /\ height = 4
    /\ nbrs.x = 1 /\ nbrs.y = 2
    /\ Len(nbrs.result) = 8

----------------------------------------------------------------------------
(* C12 *)

\* Coordinates with x >= width or y >= height, up to two past each edge.
OutOfBounds ==
    {p \in (0..(width + 1)) \X (0..(height + 1)) :
        p[1] >= width \/ p[2] >= height}

\* C12: for any coordinates with x >= width or y >= height, at(x, y) is
\* None, and click(x, y) and flag(x, y) return leaving every cell, the game
\* condition and flagged_count as they were.
C12_OutOfBoundsIgnored ==
    \A p \in OutOfBounds :
        /\ at(Self, p[1], p[2]) = None
        /\ click(Self, p[1], p[2]) = Self
        /\ flag(Self, p[1], p[2]) = Self

\* A board in play with a revealed cell, a flagged mine and a cell still
\* unknown: out-of-bounds calls have something to disturb.
C12_Witness ==
    /\ game_condition = "InProgress"
    /\ flagged_count = 1
    /\ \E i, j, k \in Cells :
        /\ IsRevealed(field[i])
        /\ field[j].visibility = Flagged
        /\ field[k].visibility = Unknown
    /\ at(Self, width, 0) = None
    /\ click(Self, 0, height) = Self
    /\ flag(Self, width, height) = Self

----------------------------------------------------------------------------
(* C13, C14, C15 *)

\* The combinations the calls of next have yielded so far, in order.
Yielded ==
    LET somes == SelectSeq(returned, LAMBDA v : v.tag = "Some")
    IN [k \in 1..Len(somes) |-> somes[k].value]

\* a is a strictly increasing sequence of r elements of 0..n-1.
IsCombination(a, n, r) ==
    /\ Len(a) = r
    /\ \A k \in 1..r : a[k] \in 0..(n - 1)
    /\ \A k \in 1..(r - 1) : a[k] < a[k + 1]

\* a comes before b in lexicographic order (a and b of equal length).
LexLess(a, b) ==
    \E k \in 1..Len(a) :
        /\ a[k] < b[k]
        /\ \A j \in 1..(k - 1) : a[j] = b[j]

\* C13: for 1 <= r <= n, the calls of next on CombinationIterator::new(n, r)
\* yield the strictly increasing r-sequences over {0..n-1} in lexicographic
\* order, starting at [0..r-1]; when next has returned None the yielded
\* values are all C(n, r) of them, without duplicates, the last one being
\* [n-r..n-1]; and every call after the first None returns None.
C13_AllCombinationsInOrder ==
    (iter # None /\ iter.r >= 1 /\ iter.r <= iter.n) =>
        LET ys == Yielded
            n == iter.n
            r == iter.r
        IN /\ \A k \in 1..Len(returned) : returned[k] # Panic
           /\ \A j, k \in 1..Len(returned) :
                  (j < k /\ returned[j] = None) => returned[k] = None
           /\ \A k \in 1..Len(ys) : IsCombination(ys[k], n, r)
           /\ \A k \in 1..(Len(ys) - 1) : LexLess(ys[k], ys[k + 1])
           /\ Len(ys) >= 1 => ys[1] = [k \in 1..r |-> k - 1]
           /\ Ends(returned) >= 1 =>
                  /\ Len(ys) = Binomial(n, r)
                  /\ {{ys[k][i] : i \in 1..r} : k \in 1..Len(ys)}
                        = {S \in SUBSET (0..(n - 1)) : Cardinality(S) = r}
                  /\ ys[Len(ys)] = [k \in 1..r |-> n - r + k - 1]

\* CombinationIterator::new(5, 3) has yielded its 10 combinations and next
\* was called twice more after it first returned None.
C13_Witness ==
    /\ iter # None
    /\ iter.n = 5 /\ iter.r = 3
    /\ Len(Yielded) = 10
    /\ Ends(returned) = 3

\* C14: the calls of next on CombinationIterator::new(n, 0) return the
\* empty combination once and None from then on, and none of them panics.
C14_EmptyCombinationOnce ==
    (iter # None /\ iter.r = 0 /\ returned # << >>) =>
        /\ returned[1] = Some(<< >>)
        /\ \A k \in 2..Len(returned) : returned[k] = None

\* C15: every combination yielded by CombinationIterator::new(m, k - 1)
\* with k >= 2 and k - 1 <= m turns, after 0 is put in front and m at the
\* end, into k consecutive differences that are all non-negative and sum
\* to m.
C15_PartitionSumsToMines ==
    (iter # None /\ iter.r >= 1) =>
        \A j \in 1..Len(Yielded) :
            LET counts == mine_counts(Yielded[j], iter.n)
            IN /\ Len(counts) = iter.r + 1
               /\ \A i \in 1..Len(counts) : counts[i] >= 0
               /\ SumSeq(counts) = iter.n

\* Four mines over three groups: the cut points [0, 1] were yielded and
\* give the first group no mine, the second one and the third three.
C15_Witness ==
    /\ iter # None
    /\ iter.n = 4 /\ iter.r = 2
    /\ \E j \in 1..Len(Yielded) :
        /\ Yielded[j] = <<0, 1>>
        /\ mine_counts(Yielded[j], iter.n) = <<0, 1, 3>>

----------------------------------------------------------------------------
(* C21, C22 *)

\* The positions of the Unknown cells of the board.
UnknownPositions == {PosOf(i, width) : i \in UnknownCells(Self)}

\* The groups partition the Unknown cells: every Unknown cell is in exactly
\* one group, and no group is empty.
GroupsPartition ==
    /\ \A c \in UnknownPositions :
          Cardinality({k \in 1..Len(groups) : c \in groups[k]}) = 1
    /\ \A k \in 1..Len(groups) : groups[k] # {}

\* C21: on every board with at least one Unknown cell the grouping loop of
\* educated_guess ends, and when it has ended every Unknown cell is in
\* exactly one group and no group is empty.
C21_GroupingTerminates ==
    /\ (guess_pc = "while" /\ UnknownPositions # {})
          ~> (guess_pc = "grouped")
    /\ []((guess_pc = "grouped" /\ UnknownPositions # {}) => GroupsPartition)

\* The Unknown cells next to the cell of field index r, as positions.
UnknownAround(r) ==
    {PosOf(i, width) : i \in {j \in UnknownCells(Self) : Adjacent(r, j)}}

\* C22: when the grouping loop has ended, the Unknown neighbors of any one
\* revealed cell are all in the same group.
C22_GroupsShareNoClue ==
    guess_pc = "grouped" =>
        \A r \in Cells :
            IsRevealed(field[r]) =>
                \A a, b \in UnknownAround(r) :
                    \A j, k \in 1..Len(groups) :
                        (a \in groups[j] /\ b \in groups[k]) => j = k

\* The grouping loop has ended on a board where a revealed cell has two
\* Unknown neighbors, and one group holds them both.
C22_Witness ==
    /\ guess_pc = "grouped"
    /\ \E r \in Cells :
        /\ IsRevealed(field[r])
        /\ \E a, b \in UnknownAround(r) :
            /\ a # b
            /\ \E k \in 1..Len(groups) : {a, b} \subseteq groups[k]

----------------------------------------------------------------------------
(* C23 *)

\* The vectors of k non-negative integers that sum to m.
Compositions(k, m) == {v \in [1..k -> 0..m] : SumSeq(v) = m}

\* The mine-count vectors of the combinations yielded so far.
EnumeratedMineCounts ==
    {mine_counts(Yielded[j], iter.n) : j \in 1..Len(Yielded)}

\* C23: for k >= 2 groups and m remaining mines, once
\* CombinationIterator::new(m, k - 1) has returned None, the mine-count
\* vectors of the yielded cut points are all the vectors of k non-negative
\* integers that sum to m, those with a 0 after the first place included.
C23_AllMineCountVectors ==
    (iter # None /\ iter.r >= 1 /\ Ends(returned) >= 1) =>
        EnumeratedMineCounts = Compositions(iter.r + 1, iter.n)

----------------------------------------------------------------------------
(* C24 *)

\* The search over the partitions is admitted.
PartitionSearchAdmitted ==
    SearchScaleBelow3(remaining_mines(Self), Len(groups) - 1)

\* The mine-count distributions enumerated for the groups that are not
\* rejected: no group gets more mines than it has cells.
Distributions ==
    LET yielded == Collect(CombinationIterator_new(remaining_mines(Self),
                                                   Len(groups) - 1))
    IN {d \in {mine_counts(yielded[j], remaining_mines(Self)) :
                  j \in 1..Len(yielded)} :
           \A k \in 1..Len(groups) : d[k] <= Cardinality(groups[k])}

\* The search of group k is admitted under each of the distributions.
GroupSearchAdmitted(k) ==
    \A d \in Distributions : SearchScaleBelow3(Cardinality(groups[k]), d[k])

\* The field of the hypothesis with the mines of group k exactly at S: the
\* cells of S are mines, the other cells of the group are not, every other
\* cell is as on the board.
HypothesisField(k, S) ==
    [i \in Cells |->
        IF PosOf(i, width) \in S THEN Cell("Mine", field[i].visibility)
        ELSE IF PosOf(i, width) \in groups[k]
        THEN Cell("Empty", field[i].visibility)
        ELSE field[i]]

\* Each clue of the board is the number of mines around it in the field f.
CluesHoldIn(f) ==
    \A r \in Cells :
        IsRevealed(field[r]) => field[r].visibility.n = MinesAround(f, r)

\* The pairs of a distribution and a subset of group k of the size the
\* distribution gives the group, with c in the subset, whose hypothesis
\* agrees with the clues.
ConsistentPairs(k, c) ==
    {p \in Distributions \X SUBSET groups[k] :
        /\ Cardinality(p[2]) = p[1][k]
        /\ c \in p[2]
        /\ CluesHoldIn(HypothesisField(k, p[2]))}

\* No cell of group k is next to a revealed cell.
Unconstrained(k) ==
    \A c \in groups[k], r \in Cells :
        IsRevealed(field[r]) => ~Adjacent(r, KeyOf(c, width))

\* The tallies are final.
Tallied == guess_pc \in {"select", "returned"}

\* C24: with the search over the partitions admitted and the search of a
\* group admitted under each distribution, the final tally of each cell c
\* of the group is the number of pairs (distribution d, subset S of the
\* group with d's count of cells and c among them) whose hypothesis, with
\* the mines of the group exactly at S, agrees with the clues; the cells of
\* such a group with no revealed cell next to it have equal tallies.
C24_TallyCountsHypotheses ==
    (Tallied /\ PartitionSearchAdmitted) =>
        \A k \in 1..Len(groups) :
            GroupSearchAdmitted(k) =>
                /\ \A c \in groups[k] :
                      histogram[KeyOf(c, width)]
                          = Cardinality(ConsistentPairs(k, c))
                /\ Unconstrained(k) =>
                      \A c1, c2 \in groups[k] :
                          histogram[KeyOf(c1, width)]
                              = histogram[KeyOf(c2, width)]

\* A group searched under each distribution whose clues give two of its
\* cells different tallies above zero, and a group with no clue whose
\* cells all have the same tally above zero.
C24_Witness ==
    /\ Tallied
    /\ PartitionSearchAdmitted
    /\ \E k \in 1..Len(groups) :
          /\ GroupSearchAdmitted(k)
          /\ \/ \E c1, c2 \in groups[k] :
                   /\ histogram[KeyOf(c1, width)] > 0
                   /\ histogram[KeyOf(c2, width)]
                         > histogram[KeyOf(c1, width)]
             \/ /\ Unconstrained(k)
                /\ \E c \in groups[k] : histogram[KeyOf(c, width)] > 1

----------------------------------------------------------------------------
(* The frame loop on a square board, with the guess educated_guess computes
   (src/src/main.rs) *)

\* A new board of SquareSide x SquareSide cells with SquareBombs mines, a
\* new solver, an empty deferred queue, and the loop at the top of a frame.
InitSquare ==
    /\ width = SquareSide
    /\ height = SquareSide
    /\ bomb_count = SquareBombs
    /\ \E M \in SUBSET (0..(SquareSide * SquareSide - 1)) :
         /\ Cardinality(M) = SquareBombs
         /\ field = NewField(SquareSide, SquareSide, M)
    /\ game_condition = "InProgress"
    /\ flagged_count = 0
    /\ hypothetical = None
    /\ valid = None
    /\ nbrs = None
    /\ iter = None
    /\ returned = << >>
    /\ solver = Solver_new
    /\ events = << >>
    /\ cursor = 0
    /\ event = EventNone
    /\ saved_valid_clicks = << >>
    /\ guess_count = 0
    /\ pc = "frame"
    /\ hist = << >>
    /\ NoGuess

\* The grouping loop of educated_guess ends with one group: there are
\* Unknown cells and each is in the neighborhood of each other, so the
\* first cell popped from check_queue takes every other one into group 0.
OneGroup(g) ==
    LET cells == Range(unknown_cells(g))
    IN /\ cells # {}
       /\ \A c, d \in cells : c # d => d \in neighborhood(g, c)

\* educated_guess with one group: iter is the one empty partition,
\* search_scale is not below 3 (ramanujan_approximation(0.0) is NaN, and
\* SearchScaleBelow3 is false for groups.len() - 1 = 0), the else branch
\* adds 1 to the tally of every Unknown cell, and the move is selected from
\* the sorted histogram. A game is followed up to MaxSquareGuesses guesses.
GuessOneGroup ==
    /\ pc = "guess"
    /\ guess_count < MaxSquareGuesses
    /\ OneGroup(Self)
    /\ ~ SearchScaleBelow3(remaining_mines(Self), 0)
    /\ \E augmented_histogram \in
             augmented_histograms([k \in UnknownCells(Self) |-> 1]) :
         LET r == guess_select(augmented_histogram, width,
                               saved_valid_clicks, guess_count)
         IN /\ event' = r.event
            /\ saved_valid_clicks' = r.saved_valid_clicks
            /\ guess_count' = r.guess_count
    /\ pc' = "apply"
    /\ UNCHANGED <<hypothetical, valid, nbrs, iter, returned, guessVars>>
    /\ UNCHANGED <<boardVars, solver, events, cursor, hist>>

NextSquare ==
    \/ NextClicks
    \/ GuessOneGroup
    \/ ApplyEvent
    \/ Restart
    \/ NoRestart
    \/ CallUpdate

SpecSquare == InitSquare /\ [][NextSquare]_vars

----------------------------------------------------------------------------
(* C26, C27, C28 *)

\* The positions of the entries of a strategy's frontier that are Some.
FrontierOf(s) ==
    {<<s.cells_of_interest[k].value[1], s.cells_of_interest[k].value[2]>> :
        k \in {j \in DOMAIN s.cells_of_interest :
                   s.cells_of_interest[j] # None}}

\* The number of entries of a strategy's frontier that are Some and at q.
LiveAt(s, q) ==
    Cardinality({k \in DOMAIN s.cells_of_interest :
                    /\ s.cells_of_interest[k] # None
                    /\ s.cells_of_interest[k].value[1] = q[1]
                    /\ s.cells_of_interest[k].value[2] = q[2]})

\* The positions of the cells of the board next to the position p.
NeighborsOf(p) ==
    {PosOf(j, width) : j \in {i \in Cells : Adjacent(KeyOf(p, width), i)}}

\* The step is a call of solver.update with the event.
UpdateCall == pc = "update" /\ pc' # "update"

\* C26: after each call of update with Click(p), the first call a strategy
\* gets included, the frontier of each strategy holds p and every neighbor
\* of p on the board.
C26_ClickJoinsFrontier ==
    [][(UpdateCall /\ event.tag = "Click") =>
          \A i \in DOMAIN solver' :
              ({event.pos} \cup NeighborsOf(event.pos)) \subseteq FrontierOf(solver'[i])]_vars

\* C27: after each call of update with Flag(p) the frontier of each
\* strategy holds every neighbor of p on the board.
C27_FlagAddsNeighbors ==
    [][(UpdateCall /\ event.tag = "Flag") =>
          \A i \in DOMAIN solver' :
              NeighborsOf(event.pos) \subseteq FrontierOf(solver'[i])]_vars

\* C28: a call of update with Flag(p) leaves no entry at p in the frontier
\* of any strategy, and as many entries that are Some at each other
\* position as there were.
C28_FlagRemovesEveryEntryAtP ==
    [][(UpdateCall /\ event.tag = "Flag") =>
          \A i \in DOMAIN solver' :
              /\ LiveAt(solver'[i], event.pos) = 0
              /\ \A j \in Cells :
                    PosOf(j, width) # event.pos =>
                       LiveAt(solver'[i], PosOf(j, width))
                          = LiveAt(solver[i], PosOf(j, width))]_vars

----------------------------------------------------------------------------
(* C29 *)

\* The hypothesis board h, built for the group of index h.group_idx, is the
\* real board but for the state of Unknown cells of that group.
WritesWithinGroup(h) ==
    /\ [h.board EXCEPT !.field = field] = Self
    /\ DOMAIN h.board.field = Cells
    /\ \A i \in Cells :
          /\ h.board.field[i].visibility = field[i].visibility
          /\ h.board.field[i].state # field[i].state =>
                /\ PosOf(i, width) \in groups[h.group_idx + 1]
                /\ field[i].visibility = Unknown

\* C29: no step of educated_guess changes a cell's state or visibility, the
\* game condition or flagged_count of the real board, and every board a
\* hypothesis was written into is a copy of the real board that differs
\* from it in the state of Unknown cells of the group enumerated only.
C29_RealBoardUntouched ==
    /\ [][boardVars' = boardVars]_vars
    /\ [](\A h \in hypotheses : WritesWithinGroup(h))

\* educated_guess has returned after writing hypotheses for two groups,
\* some of them with a mine where the real board has none.
C29_Witness ==
    /\ guess_pc = "returned"
    /\ \E h1, h2 \in hypotheses :
          /\ h1.group_idx # h2.group_idx
          /\ \E i \in Cells :
                h1.board.field[i].state = "Mine" /\ field[i].state = "Empty"
          /\ \E i \in Cells :
                h2.board.field[i].state = "Empty" /\ field[i].state = "Mine"

----------------------------------------------------------------------------
(* C30 *)

\* The tally of a key in a map, 0 for a key the map does not have.
TallyIn(map, key) == IF key \in DOMAIN map THEN map[key] ELSE 0

\* The partitions the map closure is applied to.
Candidates ==
    Collect(CombinationIterator_new(remaining_mines(Self), Len(groups) - 1))

\* The local histograms of the candidates from candidate j on, for the cell
\* vectors cells_of.
RECURSIVE LocalHistograms(_, _)
LocalHistograms(cells_of, j) ==
    IF j > Len(Candidates) THEN << >>
    ELSE <<local_histogram(Self, cells_of, Candidates[j]).local>>
            \o LocalHistograms(cells_of, j + 1)

\* The sum of the tallies of a key over a sequence of maps.
TallySum(maps, key) ==
    SumSeq([j \in 1..Len(maps) |-> TallyIn(maps[j], key)])

\* The fold into histogram is done and the selection has not begun.
Merged == guess_pc = "select"

----------------------------------------------------------------------------
(* C16 *)

\* The field index of a position.
IndexOf(pos) == pos[2] * width + pos[1]

\* Number of cells adjacent to cell i whose visibility is v.
Around(i, v) ==
    Cardinality({j \in Cells : Adjacent(i, j) /\ field[j].visibility = v})

\* The field indices of the live entries of a frontier.
LiveCells(coi) ==
    {IndexOf(<<coi[k].value[1], coi[k].value[2]>>) :
        k \in {j \in 1..Len(coi) : coi[j] # None}}

\* Cell i is revealed and its clue equals the number of its flagged
\* neighbors.
Exhausted(i) ==
    /\ IsRevealed(field[i])
    /\ field[i].visibility.n = Around(i, Flagged)

\* C16: for every live frontier entry of ExhaustedCellDetection whose cell
\* is Revealed(n) with exactly n Flagged neighbors and at least one Unknown
\* neighbor, attempt returns a Click on an Unknown neighbor of that cell; and
\* every Click attempt returns targets a cell that is Unknown on the board
\* and adjacent to a Revealed(n) frontier cell with exactly n Flagged
\* neighbors.
C16_ExhaustedClicksSound ==
    solver # << >> =>
        LET coi == solver[1].cells_of_interest
            clicks == SelectSeq(attempt(solver[1], Self).events,
                                LAMBDA e : e.tag = "Click")
        IN /\ solver[1].kind = "ExhaustedCellDetection"
           /\ \A k \in 1..Len(coi) :
                 (/\ coi[k] # None
                  /\ Exhausted(IndexOf(coi[k].value))
                  /\ Around(IndexOf(coi[k].value), Unknown) >= 1) =>
                    LET out == ExhaustedAttemptEntry(Self, coi[k]).out
                    IN /\ out # None
                       /\ out.value.tag = "Click"
                       /\ InBounds(out.value.pos[1], out.value.pos[2])
                       /\ Adjacent(IndexOf(coi[k].value),
                                   IndexOf(out.value.pos))
                       /\ field[IndexOf(out.value.pos)].visibility = Unknown
           /\ \A k \in 1..Len(clicks) :
                 /\ InBounds(clicks[k].pos[1], clicks[k].pos[2])
                 /\ field[IndexOf(clicks[k].pos)].visibility = Unknown
                 /\ \E i \in LiveCells(coi) :
                       /\ Exhausted(i)
                       /\ Adjacent(i, IndexOf(clicks[k].pos))

\* A frame has begun with a Click that ExhaustedCellDetection's attempt
\* returned for a live frontier cell whose clue its flagged neighbors meet.
C16_Witness ==
    /\ pc = "apply" /\ cursor = 1 /\ hist = << >>
    /\ events # << >>
    /\ events[1].tag = "Click"
    /\ attempt(solver[1], Self).events # << >>
    /\ events[1] = attempt(solver[1], Self).events[1]
    /\ \E i \in LiveCells(solver[1].cells_of_interest) :
          /\ Exhausted(i)
          /\ Adjacent(i, IndexOf(events[1].pos))

----------------------------------------------------------------------------
(* C17 *)

\* Cell c is revealed and its clue equals the number of its Unknown
\* neighbors plus the number of its Flagged neighbors.
Bijective(c) ==
    /\ IsRevealed(field[c])
    /\ field[c].visibility.n = Around(c, Unknown) + Around(c, Flagged)

\* Cell c is live in BijectionDetection's frontier and bijective, and u is
\* one of its Unknown neighbors.
FlagPending(c, u) ==
    /\ solver # << >>
    /\ c \in Cells /\ u \in Cells
    /\ c \in LiveCells(solver[2].cells_of_interest)
    /\ Bijective(c)
    /\ Adjacent(c, u)
    /\ field[u].visibility = Unknown

\* Each live, bijective entry with an Unknown neighbor gets from the
\* closure of attempt exactly one event, a Flag on an Unknown neighbor of
\* its cell, and stays in the frontier.
OneFlagPerEntry ==
    solver # << >> =>
        LET coi == solver[2].cells_of_interest
        IN /\ solver[2].kind = "BijectionDetection"
           /\ \A k \in 1..Len(coi) :
                 (/\ coi[k] # None
                  /\ Bijective(IndexOf(coi[k].value))
                  /\ Around(IndexOf(coi[k].value), Unknown) >= 1) =>
                    LET r == BijectionAttemptEntry(Self, coi[k])
                    IN /\ r.entry = coi[k]
                       /\ r.out # None
                       /\ r.out.value.tag = "Flag"
                       /\ InBounds(r.out.value.pos[1], r.out.value.pos[2])
                       /\ Adjacent(IndexOf(coi[k].value),
                                   IndexOf(r.out.value.pos))
                       /\ field[IndexOf(r.out.value.pos)].visibility = Unknown

\* C17: if a Revealed(n) cell of BijectionDetection's frontier has as many
\* Unknown plus Flagged neighbors as its clue, then the cycle of attempt,
\* applying every returned event and update per applied event eventually
\* flags every one of its Unknown neighbors, one Flag per attempt for each
\* entry of the cell, whatever else the frontier holds and whatever other
\* events the batches carry; the cycle on this solver ends when the game
\* does.
C17_BijectionFlagsAll ==
    /\ []OneFlagPerEntry
    /\ \A c, u \in 0..(MaxFrameCells - 1) :
          FlagPending(c, u) ~>
              (\/ (u \in Cells /\ field[u].visibility = Flagged)
               \/ game_condition # "InProgress")

\* A bijective frontier cell has had one of its two mined neighbors flagged
\* by an earlier frame; the frame now running was handed the Flag for the
\* other one, and the game is still in progress.
C17_Witness ==
    /\ pc = "apply" /\ hist = << >>
    /\ game_condition = "InProgress"
    /\ \E c, u, v \in Cells :
          /\ u # v
          /\ FlagPending(c, u)
          /\ Adjacent(c, v)
          /\ field[v].visibility = Flagged
          /\ events[cursor] = EventFlag(<<CellX(u), CellY(u)>>)

----------------------------------------------------------------------------
(* C18 *)

\* The board is the one GameState::new returns.
FreshBoard ==
    /\ game_condition = "InProgress"
    /\ flagged_count = 0
    /\ \A i \in Cells : field[i].visibility = Unknown

\* What the current frame has done is: events applied in the order of the
\* batch, each one that left the game in progress followed at once by the
\* update carrying it, and one that ended the game followed at once by the
\* restart, after which the frame does nothing more and nothing of the
\* batch or of the deferred queue is left.
FrameOrder ==
    LET applies == SelectSeq(hist, LAMBDA s : s.op = "apply")
    IN /\ \A i \in 1..Len(hist) :
             /\ hist[i].op = "apply" /\ i < Len(hist) =>
                   IF hist[i].ended
                   THEN hist[i + 1].op = "restart"
                   ELSE /\ hist[i + 1].op = "update"
                        /\ hist[i + 1].event = hist[i].event
             /\ hist[i].op = "update" =>
                   /\ i > 1
                   /\ hist[i - 1].op = "apply"
                   /\ hist[i - 1].event = hist[i].event
                   /\ ~hist[i - 1].ended
                   /\ hist[Len(hist)].op # "restart" =>
                         \A k \in 1..Len(solver) : solver[k].initialized
             /\ hist[i].op = "restart" =>
                   /\ i = Len(hist)
                   /\ i > 1
                   /\ hist[i - 1].op = "apply"
                   /\ hist[i - 1].ended
                   /\ events = << >>
                   /\ saved_valid_clicks = << >>
                   /\ solver = Solver_new
                   /\ FreshBoard
       /\ events # << >> =>
             /\ Len(applies) <= Len(events)
             /\ \A k \in 1..Len(applies) : applies[k].event = events[k]

\* The last thing the frame did is apply an event that left the game in
\* progress (ended = FALSE) or that ended it (ended = TRUE).
LastApplied(ended) ==
    /\ hist # << >>
    /\ hist[Len(hist)].op = "apply"
    /\ hist[Len(hist)].ended = ended

\* The last thing the frame did is op.
LastDid(op) == hist # << >> /\ hist[Len(hist)].op = op

\* C18: in the frame loop every applied event that does not end the game
\* is followed, before the next event of the batch is applied, by exactly
\* one Solver::update carrying that event, and the update runs on every
\* strategy of the solver; an applied event that ends the game is followed
\* by the restart, and the rest of the batch and the deferred queue are
\* dropped, not applied to the new board.
C18_UpdateAfterEachEvent ==
    /\ []FrameOrder
    /\ [][pc = "update" =>
            /\ Len(solver') = Len(solver)
            /\ \A k \in 1..Len(solver) :
                  solver'[k] = update(solver[k], Self, event)]_vars
    /\ LastApplied(FALSE) ~> LastDid("update")
    /\ LastApplied(TRUE) ~> LastDid("restart")

\* A frame has applied two different events of its batch, each followed by
\* its update, and a third event of the batch is still to come.
C18_Witness ==
    /\ Len(hist) = 4
    /\ Len(events) >= 3
    /\ hist[1].op = "apply" /\ hist[2].op = "update"
    /\ hist[3].op = "apply" /\ hist[4].op = "update"
    /\ hist[1].event # hist[3].event
    /\ hist[2].event = events[1]
    /\ hist[4].event = events[2]
    /\ pc = "apply"

----------------------------------------------------------------------------
(* C19, C20 *)

\* The keys of an augmented histogram whose tally is t.
KeysWithTally(augmented_histogram, t) ==
    {augmented_histogram[k][1] :
        k \in {j \in 1..Len(augmented_histogram) :
                  augmented_histogram[j][2] = t}}

\* The least tally of a non-empty augmented histogram.
MinTally(augmented_histogram) ==
    CHOOSE t \in {augmented_histogram[k][2] :
                    k \in 1..Len(augmented_histogram)} :
        \A k \in 1..Len(augmented_histogram) : t <= augmented_histogram[k][2]

\* What a call of guess_select appended to the deferred queue.
Appended(r) ==
    SubSeq(r.saved_valid_clicks, Len(saved_valid_clicks) + 1,
           Len(r.saved_valid_clicks))

\* C19: when the minimum tally of the histogram is 0, educated_guess returns
\* a Click on a cell with tally 0, appends to the deferred queue exactly one
\* Click for each other cell with tally 0 and nothing else, and leaves the
\* guess counter as it was.
C19_ZeroTallyDefers ==
    pc = "guess" =>
        \A a \in AugmentedHistograms(Self) :
            (a # << >> /\ MinTally(a) = 0) =>
                LET r == guess_select(a, width, saved_valid_clicks,
                                      guess_count)
                    zeros == KeysWithTally(a, 0)
                    added == Appended(r)
                IN /\ r # Panic
                   /\ r.event.tag = "Click"
                   /\ InBounds(r.event.pos[1], r.event.pos[2])
                   /\ IndexOf(r.event.pos) \in zeros
                   /\ SubSeq(r.saved_valid_clicks, 1, Len(saved_valid_clicks))
                         = saved_valid_clicks
                   /\ \A k \in 1..Len(added) :
                         /\ added[k].tag = "Click"
                         /\ InBounds(added[k].pos[1], added[k].pos[2])
                   /\ {IndexOf(added[k].pos) : k \in 1..Len(added)}
                         = zeros \ {IndexOf(r.event.pos)}
                   /\ Len(added) = Cardinality(zeros) - 1
                   /\ r.guess_count = guess_count

\* educated_guess has returned a Click after earlier guesses were counted,
\* and left two deferred Clicks in the queue without counting a guess: the
\* counter still stands at the 1 of the game's first guess.
C19_Witness ==
    /\ pc = "apply" /\ events = << >> /\ hist = << >>
    /\ event.tag = "Click"
    /\ field[IndexOf(event.pos)].visibility = Unknown
    /\ Len(saved_valid_clicks) = 2
    /\ saved_valid_clicks[1] # saved_valid_clicks[2]
    /\ \A k \in 1..2 : saved_valid_clicks[k].pos # event.pos
    /\ guess_count = 1

\* C20: when the minimum tally of the histogram is greater than 0,
\* educated_guess returns a Click on an Unknown cell whose tally is the
\* minimum, appends nothing to the deferred queue and adds exactly 1 to the
\* guess counter; on no histogram does it change the counter otherwise.
C20_PositiveTallyGuesses ==
    pc = "guess" =>
        \A a \in AugmentedHistograms(Self) :
            a # << >> =>
                LET r == guess_select(a, width, saved_valid_clicks,
                                      guess_count)
                IN /\ r # Panic
                   /\ MinTally(a) > 0 =>
                         /\ r.event.tag = "Click"
                         /\ InBounds(r.event.pos[1], r.event.pos[2])
                         /\ field[IndexOf(r.event.pos)].visibility = Unknown
                         /\ IndexOf(r.event.pos)
                               \in KeysWithTally(a, MinTally(a))
                         /\ r.saved_valid_clicks = saved_valid_clicks
                         /\ r.guess_count = guess_count + 1
                   /\ r.guess_count # guess_count => MinTally(a) > 0

\* educated_guess has returned its second counted guess of the game, a
\* Click on an Unknown cell, and the deferred queue is empty.
C20_Witness ==
    /\ pc = "apply" /\ events = << >> /\ hist = << >>
    /\ event.tag = "Click"
    /\ field[IndexOf(event.pos)].visibility = Unknown
    /\ saved_valid_clicks = << >>
    /\ guess_count = 2

----------------------------------------------------------------------------
(* C31 *)

\* The Click events solver.next_clicks returns on the board as it is.
SolverClicks ==
    SelectSeq(next_clicks(solver, Self).events, LAMBDA e : e.tag = "Click")

\* C31: in every state the frame loop reaches from a new board, every
\* Flagged cell holds a mine, and at the top of a frame every Click that
\* next_clicks returns is on a cell of the board that holds no mine.
C31_SolverMovesAreSafe ==
    /\ \A i \in Cells :
          field[i].visibility = Flagged => field[i].state = "Mine"
    /\ pc = "frame" =>
          \A k \in 1..Len(SolverClicks) :
              /\ InBounds(SolverClicks[k].pos[1], SolverClicks[k].pos[2])
              /\ field[IndexOf(SolverClicks[k].pos)].state = "Empty"

\* At the top of a frame of a game in progress a cell is Flagged, a mine is
\* still Unknown, and next_clicks returns a Click.
C31_Witness ==
    /\ pc = "frame"
    /\ game_condition = "InProgress"
    /\ \E i \in Cells : field[i].visibility = Flagged
    /\ \E i \in Cells :
          field[i].visibility = Unknown /\ field[i].state = "Mine"
    /\ SolverClicks # << >>

----------------------------------------------------------------------------
(* One game of the frame loop, educated_guess run step by step
   (src/src/main.rs) *)

\* A new one-row board, a new solver, an empty deferred queue, the loop at
\* the top of its first frame and no call of educated_guess running.
InitGame ==
    \E w \in 1..MaxGameCells, b \in 0..MaxGameBombs :
        /\ b <= w
        /\ \E M \in SUBSET (0..(w - 1)) :
            /\ Cardinality(M) = b
            /\ field = NewField(w, 1, M)
        /\ width = w
        /\ height = 1
        /\ bomb_count = b
        /\ game_condition = "InProgress"
        /\ flagged_count = 0
        /\ hypothetical = None
        /\ valid = None
        /\ nbrs = None
        /\ iter = None
        /\ returned = << >>
        /\ solver = Solver_new
        /\ events = << >>
        /\ cursor = 0
        /\ event = EventNone
        /\ saved_valid_clicks = << >>
        /\ guess_count = 0
        /\ pc = "frame"
        /\ hist = << >>
        /\ NoGuess

\* The frame has no event: educated_guess(&mut game_state, &mut guess_count,
\* &mut saved_valid_clicks) is called and reaches its grouping loop.
CallEducatedGuess ==
    /\ pc = "guess"
    /\ EnterGuess

\* educated_guess returns its event to the frame loop, which applies it;
\* the locals of the call are dropped.
ReturnGuess ==
    /\ pc = "guess"
    /\ guess_pc = "returned"
    /\ pc' = "apply"
    /\ groups' = << >>
    /\ ungrouped_cells' = {}
    /\ check_queue' = << >>
    /\ group_idx' = 0
    /\ first_ungrouped_cell' = None
    /\ collected' = << >>
    /\ histogram' = None
    /\ hypotheses' = {}
    /\ guess_pc' = "none"
    /\ UNCHANGED <<hypothetical, valid, nbrs, iter, returned, boardVars>>
    /\ UNCHANGED <<solver, events, cursor, event, saved_valid_clicks,
                   guess_count, hist>>

\* The steps of the frame loop up to the end of the game: when
\* check_and_restart_game finds the game Won or Lost the run is followed no
\* further.
NextGame ==
    \/ NextClicks
    \/ CallEducatedGuess
    \/ GroupingStep
    \/ NextGuess
    \/ ReturnGuess
    \/ ApplyEvent
    \/ NoRestart
    \/ CallUpdate

SpecGame == InitGame /\ [][NextGame]_vars

----------------------------------------------------------------------------
(* C32 *)

\* educated_guess has selected its move and the least tally is 0.
ZeroTallyFound ==
    /\ pc = "guess"
    /\ guess_pc = "returned"
    /\ \E k \in DOMAIN histogram : histogram[k] = 0

\* The Click event e is on a cell that holds no mine.
OnEmptyCell(e) == field[IndexOf(e.pos)].state = "Empty"

\* C32: whenever educated_guess finds a least tally of 0, the cell it
\* clicks and every cell it queues as a deferred click hold no mine.
C32_ZeroTallyClicksAreSafe ==
    ZeroTallyFound =>
        /\ OnEmptyCell(event)
        /\ \A k \in 1..Len(saved_valid_clicks) :
              OnEmptyCell(saved_valid_clicks[k])

----------------------------------------------------------------------------
(* C33 *)

\* The places of a call of educated_guess.
GuessPlaces ==
    {"none", "while", "grow", "grouped", "reduce", "select", "returned",
     "panicked"}

\* educated_guess leaves the place g: the frame loop calls it (from
\* "none"), the outer grouping loop seeds a group or ends (from "while"),
\* the check queue is found empty (from "grow"), the tallies start (from
\* "grouped"), the reduced histogram is folded (from "reduce"), the move is
\* selected (from "select") or returned (from "returned").
GuessLeaves(g) ==
    /\ pc = "guess"
    /\ guess_pc = g
    /\ guess_pc' \in GuessPlaces \ {g}

\* The frame loop finds the game in progress after an event and goes on to
\* solver.update.
GoesOn ==
    /\ pc = "check"
    /\ game_condition = "InProgress"
    /\ pc' \in Places \ {"check"}

\* The program runs on. No step of a frame waits for anything; the inner
\* loop of the grouping pops one cell per turn from a queue that gets each
\* cell of the board at most once, and par_iter().map().reduce() has one
\* step per partition and per pair, so both leave their place. A panic of
\* educated_guess and the end of the game are left by no step. Whether the
\* outer grouping loop ends is not assumed.
SpecGameFair ==
    /\ SpecGame
    /\ \A l \in {"frame", "apply", "update"} : WF_pc(Leaves(l))
    /\ WF_pc(GoesOn)
    /\ \A g \in GuessPlaces \ {"panicked"} : WF_guess_pc(GuessLeaves(g))

\* C33: on every board with at least one mine the frame loop eventually
\* brings the game condition to Won or Lost.
C33_GameEnds ==
    bomb_count >= 1 => <>(game_condition # "InProgress")

====
